---- MODULE Spec2Model ----
(***************************************************************************)
(* Judgment engine (core/timing), score and health accumulator             *)
(* (core/score) and the game loop that drives them (core/game, input).     *)
(* Times are integer milliseconds.                                         *)
(***************************************************************************)
EXTENDS Integers, Sequences, FiniteSets, TLC

(***************************************************************************)
(* Bounds of the model.                                                    *)
(***************************************************************************)
\* judgments folded by one run of the accumulator
MaxJudged == 12
\* of which judgments that are not marvelous
MaxOther == 3
\* totalNotes handed to createScoreState
MaxNotes == 3
\* |timingDiff| handed to calculateJudgment
MaxDiff == 200
\* combo handed to getComboMultiplier
MaxComboArg == 120
\* length of the notes list handed to findMatchingNote
MaxLen == 2
\* last value of performance.now() in a play
MaxClock == 9300
\* fine clock steps after each coarse one
MaxFine == 5
\* key events (presses and releases) of one play
MaxKeys == 2
\* input events the buffer holds between two flushes
MaxBuffer == 2
\* largest percentage handed to calculateGrade
MaxPct == 101
\* lines after the headers of a step file: of the rows and separators of a
\* chart after the usual headers, and of any kind after any header block
MaxLines == 5
MaxShortLines == 2
\* lines after the headers of a file with charts of two difficulties
MaxFenceLines == 4
\* beats are given in eighths, up to MaxEighths / 8 on either side of 0
MaxEighths == 12

(***************************************************************************)
(* types/index.ts                                                          *)
(***************************************************************************)
DIRECTIONS == <<"left", "down", "up", "right">>

Directions == {DIRECTIONS[i] : i \in 1..Len(DIRECTIONS)}

Grades == {"marvelous", "perfect", "great", "good", "boo", "miss"}

\* TIMING_WINDOWS in half milliseconds (marvelous is 22.5 ms)
TIMING_WINDOWS ==
  [marvelous |-> 45, perfect |-> 90, great |-> 180, good |-> 270, boo |-> 360]

JUDGMENT_SCORES ==
  [marvelous |-> 100, perfect |-> 98, great |-> 65, good |-> 25,
   boo |-> 0, miss |-> 0]

JUDGMENT_MAINTAINS_COMBO ==
  [marvelous |-> TRUE, perfect |-> TRUE, great |-> TRUE, good |-> TRUE,
   boo |-> FALSE, miss |-> FALSE]

\* The per-grade health deltas are a configurable table keyed by grade:
\* the tables the model is run with.
GentleHealth ==
  [marvelous |-> 2, perfect |-> 2, great |-> 1, good |-> 0,
   boo |-> -4, miss |-> -8]

SteepHealth ==
  [marvelous |-> 30, perfect |-> 20, great |-> 10, good |-> 0,
   boo |-> -25, miss |-> -50]

OddHealth ==
  [marvelous |-> -60, perfect |-> 0, great |-> 5, good |-> -10,
   boo |-> 50, miss |-> 70]

HealthTables == {GentleHealth, SteepHealth, OddHealth}

(***************************************************************************)
(* core/score.ts: constants                                                *)
(***************************************************************************)
MAX_SCORE == 1000000
COMBO_MULTIPLIER_THRESHOLDS == <<10, 20, 30>>
MAX_MULTIPLIER == 4
INITIAL_HEALTH == 50
MAX_HEALTH == 100
MIN_HEALTH == 0

VARIABLES
  JUDGMENT_HEALTH,  \* the health delta table in force
  scoreState,       \* ScoreState threaded through applyJudgment, or Null
  touchedZero,      \* history: health was 0 in this or an earlier state
  call,             \* arguments of the function last called
  ret,              \* result of the pure function under test
  clock,            \* performance.now()
  frameRan,         \* the browser ran a frame callback since the clock moved
  gameplay,         \* GameController.state (the GameplayState), or Null
  running,          \* GameController.running
  frameRequested,   \* an animation frame is requested (frameId is pending)
  countdown,        \* GameController.countdown
  gameStartTime,    \* GameController.gameStartTime
  audioStartOffset, \* GameController.audioStartOffset
  events,           \* events emitted to the listeners, oldest first
  inputBuffer,      \* InputManager.inputBuffer
  heldKeys,         \* InputManager.heldKeys
  enabled,          \* InputManager.enabled
  keyCount,         \* key events delivered so far
  hasAudio,         \* GameController.hasAudio
  audioManager,     \* the audio manager, as far as the controller uses it
  timers            \* due times of the pending setTimeout callbacks

scoreVars == <<JUDGMENT_HEALTH, scoreState, touchedZero>>

pureVars == <<call, ret>>

audioVars == <<hasAudio, audioManager, timers>>

controllerVars ==
  <<gameplay, running, frameRequested, countdown, gameStartTime,
    audioStartOffset, events, audioVars>>

inputVars == <<inputBuffer, heldKeys, enabled, keyCount>>

vars == <<scoreVars, pureVars, clock, frameRan, controllerVars, inputVars>>

(***************************************************************************)
(* Arithmetic helpers                                                      *)
(***************************************************************************)
Abs(x) == IF x < 0 THEN -x ELSE x

Max(a, b) == IF a >= b THEN a ELSE b

Min(a, b) == IF a <= b THEN a ELSE b

\* Math.round(p / q) for p >= 0, q > 0: nearest integer, halves go up
MathRound(p, q) == (p \div q) + (IF 2 * (p % q) >= q THEN 1 ELSE 0)

(***************************************************************************)
(* core/score.ts                                                           *)
(***************************************************************************)
createScoreState(totalNotes) ==
  [rawScore |-> 0,
   maxPossibleScore |-> 0,
   combo |-> 0,
   maxCombo |-> 0,
   judgmentCounts |-> [marvelous |-> 0, perfect |-> 0, great |-> 0,
                       good |-> 0, boo |-> 0, miss |-> 0],
   totalJudged |-> 0,
   totalNotes |-> totalNotes,
   health |-> INITIAL_HEALTH,
   failed |-> FALSE]

\* getComboMultiplier with the tiers entered one combo late
getComboMultiplier_lateTier(combo) ==
  IF combo > COMBO_MULTIPLIER_THRESHOLDS[3] THEN MAX_MULTIPLIER
  ELSE IF combo > COMBO_MULTIPLIER_THRESHOLDS[2] THEN 3
  ELSE IF combo > COMBO_MULTIPLIER_THRESHOLDS[1] THEN 2
  ELSE 1

getComboMultiplier(combo) ==
  IF combo >= COMBO_MULTIPLIER_THRESHOLDS[3] THEN MAX_MULTIPLIER
  ELSE IF combo >= COMBO_MULTIPLIER_THRESHOLDS[2] THEN 3
  ELSE IF combo >= COMBO_MULTIPLIER_THRESHOLDS[1] THEN 2
  ELSE 1

\* the fields of applyJudgment's result, with the combo the multiplier is
\* taken from, the max combo and the failed flag left to the caller
applyJudgmentFields(health, state, grade, multiplierCombo, newCombo,
                    newMaxCombo, stickyFailed) ==
  LET scoreGain == JUDGMENT_SCORES[grade] * getComboMultiplier(multiplierCombo)
      newHealth == Max(MIN_HEALTH,
                       Min(MAX_HEALTH, state.health + health[grade]))
      hasFailed == newHealth <= MIN_HEALTH
  IN [rawScore |-> state.rawScore + scoreGain,
      maxPossibleScore |-> state.maxPossibleScore + 100 * MAX_MULTIPLIER,
      combo |-> newCombo,
      maxCombo |-> newMaxCombo,
      judgmentCounts |-> [state.judgmentCounts EXCEPT ![grade] = @ + 1],
      totalJudged |-> state.totalJudged + 1,
      totalNotes |-> state.totalNotes,
      health |-> newHealth,
      failed |-> (stickyFailed /\ state.failed) \/ hasFailed]

\* applyJudgment that stores the new combo as the max combo
applyJudgmentWith_maxIsCombo(health, state, grade) ==
  LET newCombo == IF JUDGMENT_MAINTAINS_COMBO[grade] THEN state.combo + 1 ELSE 0
  IN applyJudgmentFields(health, state, grade, state.combo, newCombo,
                         newCombo, TRUE)

\* applyJudgment whose failed flag follows the current health only
applyJudgmentWith_failedNotSticky(health, state, grade) ==
  LET newCombo == IF JUDGMENT_MAINTAINS_COMBO[grade] THEN state.combo + 1 ELSE 0
  IN applyJudgmentFields(health, state, grade, state.combo, newCombo,
                         Max(state.maxCombo, newCombo), FALSE)

\* applyJudgment that keeps the combo on boo and miss instead of resetting it
applyJudgmentWith_noReset(health, state, grade) ==
  LET newCombo == IF JUDGMENT_MAINTAINS_COMBO[grade] THEN state.combo + 1
                  ELSE state.combo
  IN applyJudgmentFields(health, state, grade, state.combo, newCombo,
                         Max(state.maxCombo, newCombo), TRUE)

\* applyJudgment that takes the multiplier of the combo after the judgment
applyJudgmentWith_postCombo(health, state, grade) ==
  LET newCombo == IF JUDGMENT_MAINTAINS_COMBO[grade] THEN state.combo + 1 ELSE 0
  IN applyJudgmentFields(health, state, grade, newCombo, newCombo,
                         Max(state.maxCombo, newCombo), TRUE)

\* applyJudgment that adds a judgment's base value of 100 to the maximum,
\* without the maximum multiplier
applyJudgmentWith_maxUnmultiplied(health, state, grade) ==
  LET newCombo == IF JUDGMENT_MAINTAINS_COMBO[grade] THEN state.combo + 1 ELSE 0
  IN [applyJudgmentFields(health, state, grade, state.combo, newCombo,
                          Max(state.maxCombo, newCombo), TRUE)
        EXCEPT !.maxPossibleScore = state.maxPossibleScore + 100]

\* applyJudgment(state, judgment) under the health table `health`;
\* only judgment.grade is read
applyJudgmentWith(health, state, grade) ==
  LET scoreValue == JUDGMENT_SCORES[grade]
      maintainsCombo == JUDGMENT_MAINTAINS_COMBO[grade]
      healthChange == health[grade]
      newCombo == IF maintainsCombo THEN state.combo + 1 ELSE 0
      newMaxCombo == Max(state.maxCombo, newCombo)
      multiplier == getComboMultiplier(state.combo)
      scoreGain == scoreValue * multiplier
      newCounts == [state.judgmentCounts EXCEPT ![grade] = @ + 1]
      newHealth == Max(MIN_HEALTH, Min(MAX_HEALTH, state.health + healthChange))
      hasFailed == newHealth <= MIN_HEALTH
  IN [rawScore |-> state.rawScore + scoreGain,
      maxPossibleScore |-> state.maxPossibleScore + 100 * MAX_MULTIPLIER,
      combo |-> newCombo,
      maxCombo |-> newMaxCombo,
      judgmentCounts |-> newCounts,
      totalJudged |-> state.totalJudged + 1,
      totalNotes |-> state.totalNotes,
      health |-> newHealth,
      failed |-> state.failed \/ hasFailed]

applyJudgment(state, grade) == applyJudgmentWith(JUDGMENT_HEALTH, state, grade)

\* the weighted sum both final-score functions recompute from the counts
actualRaw(state) ==
  state.judgmentCounts.marvelous * JUDGMENT_SCORES.marvelous +
  state.judgmentCounts.perfect * JUDGMENT_SCORES.perfect +
  state.judgmentCounts.great * JUDGMENT_SCORES.great +
  state.judgmentCounts.good * JUDGMENT_SCORES.good +
  state.judgmentCounts.boo * JUDGMENT_SCORES.boo +
  state.judgmentCounts.miss * JUDGMENT_SCORES.miss

\* calculateFinalScore that normalises the running raw score
calculateFinalScore_fromRawScore(state) ==
  IF state.totalNotes = 0 THEN 0
  ELSE LET maxRaw == state.totalNotes * 100
       IN MathRound(state.rawScore * MAX_SCORE, maxRaw)

\* calculateFinalScore that truncates instead of rounding
calculateFinalScore_floor(state) ==
  IF state.totalNotes = 0 THEN 0
  ELSE LET maxRaw == state.totalNotes * 100
       IN (actualRaw(state) * MAX_SCORE) \div maxRaw

calculateFinalScore(state) ==
  IF state.totalNotes = 0 THEN 0
  ELSE LET maxRaw == state.totalNotes * 100
       IN MathRound(actualRaw(state) * MAX_SCORE, maxRaw)

\* the percentage as the fraction num / den
calculatePercentage(state) ==
  IF state.totalNotes = 0 THEN [num |-> 0, den |-> 1]
  ELSE LET maxRaw == state.totalNotes * 100
       IN [num |-> actualRaw(state) * 100, den |-> maxRaw]

GRADE_THRESHOLDS ==
  <<[grade |-> "AAA", threshold |-> 100],
    [grade |-> "AA", threshold |-> 93],
    [grade |-> "A", threshold |-> 80],
    [grade |-> "B", threshold |-> 65],
    [grade |-> "C", threshold |-> 45],
    [grade |-> "D", threshold |-> 0]>>

\* the first entry of GRADE_THRESHOLDS from index i on that the percentage
\* meets, "D" when none does
RECURSIVE gradeFrom(_, _)
gradeFrom(percentage, i) ==
  IF i > Len(GRADE_THRESHOLDS) THEN "D"
  ELSE IF percentage.num >= GRADE_THRESHOLDS[i].threshold * percentage.den
       THEN GRADE_THRESHOLDS[i].grade
       ELSE gradeFrom(percentage, i + 1)

\* calculateGrade that gives the top grade without looking at the percentage
calculateGrade_ignoresPercentage(percentage, isFullMarvelous) ==
  IF isFullMarvelous THEN "AAAA"
  ELSE gradeFrom(percentage, 1)

calculateGrade(percentage, isFullMarvelous) ==
  IF isFullMarvelous /\ percentage.num >= 100 * percentage.den THEN "AAAA"
  ELSE gradeFrom(percentage, 1)

\* the fields of the results, given the two flags generateResults computes
resultsFields(state, isFullMarvelous, isFullCombo) ==
  LET percentage == calculatePercentage(state)
  IN [score |-> calculateFinalScore(state),
      grade |-> calculateGrade(percentage, isFullMarvelous),
      maxCombo |-> state.maxCombo,
      judgmentCounts |-> state.judgmentCounts,
      totalNotes |-> state.totalNotes,
      percentage |-> percentage,
      failed |-> state.failed,
      isFullCombo |-> isFullCombo]

\* generateResults that never recognises a full-marvelous play
generateResults_noFullMarvelous(state) ==
  resultsFields(state, FALSE,
                /\ state.judgmentCounts.good = 0
                /\ state.judgmentCounts.boo = 0
                /\ state.judgmentCounts.miss = 0
                /\ state.totalJudged > 0)

\* generateResults that takes an unbroken combo for a full combo
generateResults_unbrokenCombo(state) ==
  resultsFields(state, state.judgmentCounts.marvelous = state.totalNotes,
                state.totalJudged > 0 /\ state.maxCombo = state.totalJudged)

\* generateResults without the song and chart it passes through
generateResults(state) ==
  LET percentage == calculatePercentage(state)
      score == calculateFinalScore(state)
      isFullMarvelous == state.judgmentCounts.marvelous = state.totalNotes
      grade == calculateGrade(percentage, isFullMarvelous)
      isFullCombo == /\ state.judgmentCounts.good = 0
                     /\ state.judgmentCounts.boo = 0
                     /\ state.judgmentCounts.miss = 0
                     /\ state.totalJudged > 0
  IN [score |-> score,
      grade |-> grade,
      maxCombo |-> state.maxCombo,
      judgmentCounts |-> state.judgmentCounts,
      totalNotes |-> state.totalNotes,
      percentage |-> percentage,
      failed |-> state.failed,
      isFullCombo |-> isFullCombo]

(***************************************************************************)
(* core/timing.ts                                                          *)
(***************************************************************************)
Null == [null |-> TRUE]

\* calculateJudgment with the perfect window open at its upper end
calculateJudgment_openPerfect(timingDiff) ==
  LET absDiff == Abs(timingDiff)
  IN IF 2 * timingDiff < -TIMING_WINDOWS.boo THEN "null"
     ELSE IF 2 * absDiff <= TIMING_WINDOWS.marvelous THEN "marvelous"
     ELSE IF 2 * absDiff < TIMING_WINDOWS.perfect THEN "perfect"
     ELSE IF 2 * absDiff <= TIMING_WINDOWS.great THEN "great"
     ELSE IF 2 * absDiff <= TIMING_WINDOWS.good THEN "good"
     ELSE IF 2 * absDiff <= TIMING_WINDOWS.boo THEN "boo"
     ELSE "miss"

calculateJudgment(timingDiff) ==
  LET absDiff == Abs(timingDiff)
  IN IF 2 * timingDiff < -TIMING_WINDOWS.boo THEN "null"
     ELSE IF 2 * absDiff <= TIMING_WINDOWS.marvelous THEN "marvelous"
     ELSE IF 2 * absDiff <= TIMING_WINDOWS.perfect THEN "perfect"
     ELSE IF 2 * absDiff <= TIMING_WINDOWS.great THEN "great"
     ELSE IF 2 * absDiff <= TIMING_WINDOWS.good THEN "good"
     ELSE IF 2 * absDiff <= TIMING_WINDOWS.boo THEN "boo"
     ELSE "miss"

\* isNoteMissed that counts the edge of the boo window as missed
isNoteMissed_atEdge(noteTime, currentTime) ==
  2 * (currentTime - noteTime) >= TIMING_WINDOWS.boo

isNoteMissed(noteTime, currentTime) ==
  2 * (currentTime - noteTime) > TIMING_WINDOWS.boo

isNoteJudgeable(noteTime, currentTime) ==
  LET diff == currentTime - noteTime
  IN 2 * diff >= -TIMING_WINDOWS.boo /\ 2 * diff <= TIMING_WINDOWS.boo

\* the loop iteration without the skip of notes that are too late
keepsNote_noLateSkip(note, direction, currentTime) ==
  LET diff == currentTime - note.time
  IN /\ ~(note.direction # direction)
     /\ ~note.judged
     /\ ~(note.type = "hold" /\ note.started)
     /\ ~(2 * diff < -TIMING_WINDOWS.boo)

\* the loop without the skip of notes that are too far ahead
keepsNote_noEarlySkip(note, direction, currentTime) ==
  LET diff == currentTime - note.time
  IN /\ ~(note.direction # direction)
     /\ ~note.judged
     /\ ~(note.type = "hold" /\ note.started)
     /\ ~(2 * diff > TIMING_WINDOWS.boo)

\* one iteration of the loop of findMatchingNote: the note is skipped
\* (continue) or compared with the best so far
keepsNote(note, direction, currentTime) ==
  LET diff == currentTime - note.time
  IN /\ ~(note.direction # direction)
     /\ ~note.judged
     /\ ~(note.type = "hold" /\ note.started)
     /\ ~(2 * diff < -TIMING_WINDOWS.boo)
     /\ ~(2 * diff > TIMING_WINDOWS.boo)

\* the loop with absDiff <= bestDiff: of two notes equally near it keeps
\* the later one
RECURSIVE findFrom_lastOnTie(_, _, _, _, _)
findFrom_lastOnTie(notes, direction, currentTime, i, best) ==
  IF i > Len(notes) THEN best
  ELSE LET note == notes[i]
           absDiff == Abs(currentTime - note.time)
       IN IF /\ keepsNote(note, direction, currentTime)
             /\ (best = 0 \/ absDiff <= Abs(currentTime - notes[best].time))
          THEN findFrom_lastOnTie(notes, direction, currentTime, i + 1, i)
          ELSE findFrom_lastOnTie(notes, direction, currentTime, i + 1, best)

\* the loop from index i on; best is the index of bestNote in the list,
\* 0 while bestNote is null and bestDiff is Infinity
RECURSIVE findFrom(_, _, _, _, _)
findFrom(notes, direction, currentTime, i, best) ==
  IF i > Len(notes) THEN best
  ELSE LET note == notes[i]
           absDiff == Abs(currentTime - note.time)
       IN IF /\ keepsNote(note, direction, currentTime)
             /\ (best = 0 \/ absDiff < Abs(currentTime - notes[best].time))
          THEN findFrom(notes, direction, currentTime, i + 1, i)
          ELSE findFrom(notes, direction, currentTime, i + 1, best)

\* the position in the list of the note findMatchingNote returns, 0 for null
findMatchingIndex(notes, direction, currentTime) ==
  findFrom(notes, direction, currentTime, 1, 0)

findMatchingNote(notes, direction, currentTime) ==
  LET best == findMatchingIndex(notes, direction, currentTime)
  IN IF best = 0 THEN Null ELSE notes[best]

\* judgeNote without the default for a press that is too early
judgeNote_noDefault(note, inputTime) ==
  LET timingDiff == inputTime - note.time
  IN [noteId |-> note.id,
      timingDiff |-> timingDiff,
      grade |-> calculateJudgment(timingDiff),
      time |-> inputTime]

judgeNote(note, inputTime) ==
  LET timingDiff == inputTime - note.time
      g == calculateJudgment(timingDiff)
      grade == IF g = "null" THEN "miss" ELSE g
  IN [noteId |-> note.id,
      timingDiff |-> timingDiff,
      grade |-> grade,
      time |-> inputTime]

(***************************************************************************)
(* The accumulator as a fold: any sequence of applyJudgment calls from     *)
(* createScoreState(n).                                                    *)
(***************************************************************************)
NoCall == [op |-> "none"]

Pending == [done |-> FALSE]

Returned(value) == [done |-> TRUE, value |-> value]

\* The audio manager as the controller sees it: isPlaying,
\* getCurrentTimeMs() (the position of the playback, which started at
\* 'startedAt' from position 'from'), getDurationMs(), and the number of
\* calls of play() so far.
NoAudio == [isPlaying |-> FALSE, startedAt |-> 0, from |-> 0, duration |-> 0, plays |-> 0]

\* audioManager.play(offsetSeconds) at the time now, the offset in ms
audioPlay(audio, fromMs, now) ==
  [audio EXCEPT !.isPlaying = TRUE, !.startedAt = now, !.from = fromMs,
                !.plays = @ + 1]

\* audioManager.pause() and audioManager.stop()
audioHalt(audio) == [audio EXCEPT !.isPlaying = FALSE]

\* audioManager.getCurrentTimeMs() at the time now
audioCurrentTimeMs(audio, now) == now - audio.startedAt + audio.from

\* the controller and the input manager as constructed, no game started
Idle ==
  /\ clock = 0
  /\ frameRan = FALSE
  /\ gameplay = Null
  /\ running = FALSE
  /\ frameRequested = FALSE
  /\ countdown = [active |-> FALSE, count |-> 3, startTime |-> 0]
  /\ gameStartTime = 0
  /\ audioStartOffset = 0
  /\ events = <<>>
  /\ inputBuffer = <<>>
  /\ heldKeys = {}
  /\ enabled = FALSE
  /\ keyCount = 0
  /\ hasAudio = FALSE
  /\ audioManager = NoAudio
  /\ timers = {}

InitScore ==
  /\ JUDGMENT_HEALTH \in HealthTables
  /\ \E n \in 0..MaxNotes : scoreState = createScoreState(n)
  /\ touchedZero = FALSE
  /\ call = NoCall
  /\ ret = Pending
  /\ Idle

ApplyJudgment(grade) ==
  /\ scoreState.totalJudged < MaxJudged
  /\ \/ grade = "marvelous"
     \/ scoreState.totalJudged - scoreState.judgmentCounts.marvelous < MaxOther
  /\ scoreState' = applyJudgment(scoreState, grade)
  /\ touchedZero' = (touchedZero \/ scoreState'.health = 0)
  /\ call' = [op |-> "applyJudgment", grade |-> grade]
  /\ UNCHANGED <<JUDGMENT_HEALTH, ret, clock, frameRan, controllerVars, inputVars>>

NextScore == \E grade \in Grades : ApplyJudgment(grade)

SpecScore == InitScore /\ [][NextScore]_vars

(***************************************************************************)
(* The pure functions of the judgment engine and of the accumulator, each  *)
(* called once on arguments drawn from bounded sets.                       *)
(***************************************************************************)
NoteTimes == {0, 90, 360}

NowValues == {-181, -180, 0, 45, 46, 180, 181, 270, 271, 540, 541}

LaneDirections == {"left", "right"}

\* a note as the parser and the song generator produce it: no hold has
\* started, and nothing in the program starts one
NoteOf(id, time, direction, type, judged) ==
  [id |-> id, time |-> time, direction |-> direction, type |-> type,
   started |-> FALSE, judged |-> judged]

\* note lists of length len, sorted by time, ids in list order
NoteLists(len) ==
  { [i \in 1..len |-> NoteOf(i - 1, f[i][1], f[i][2], f[i][3], f[i][4])] :
      f \in { g \in [1..len -> NoteTimes \X LaneDirections \X {"tap", "hold"}
                                 \X BOOLEAN] :
                \A i \in 1..len, j \in 1..len : i < j => g[i][1] <= g[j][1] } }

\* percentages as fractions: the whole and the half percents up to MaxPct,
\* and the negative ones down to -1
Percentages ==
  { [num |-> n, den |-> 2] : n \in -2..(2 * MaxPct) }
  \cup { [num |-> n, den |-> 1] : n \in -1..MaxPct }

InitPure ==
  /\ JUDGMENT_HEALTH = GentleHealth
  /\ scoreState = Null
  /\ touchedZero = FALSE
  /\ ret = Pending
  /\ Idle
  /\ \/ \E d \in -MaxDiff..MaxDiff :
          call = [op |-> "calculateJudgment", timingDiff |-> d]
     \/ \E c \in 0..MaxComboArg :
          call = [op |-> "getComboMultiplier", combo |-> c]
     \/ \E percentage \in Percentages : \E isFullMarvelous \in BOOLEAN :
          call = [op |-> "calculateGrade", percentage |-> percentage,
                  isFullMarvelous |-> isFullMarvelous]
     \/ \E noteTime \in NoteTimes : \E d \in -MaxDiff..MaxDiff :
        \E op \in {"isNoteMissed", "isNoteJudgeable"} :
          call = [op |-> op, noteTime |-> noteTime,
                  currentTime |-> noteTime + d]
     \/ \E notes \in NoteLists(1) : \E d \in -MaxDiff..MaxDiff :
          call = [op |-> "judgeNote", note |-> notes[1],
                  inputTime |-> notes[1].time + d]
     \/ \E len \in 0..MaxLen : \E notes \in NoteLists(len) :
        \E direction \in LaneDirections : \E now \in NowValues :
          call = [op |-> "findMatchingNote", notes |-> notes,
                  direction |-> direction, currentTime |-> now]

CallCalculateJudgment ==
  /\ call.op = "calculateJudgment"
  /\ ~ret.done
  /\ ret' = Returned(calculateJudgment(call.timingDiff))
  /\ UNCHANGED <<scoreVars, call, clock, frameRan, controllerVars, inputVars>>

CallGetComboMultiplier ==
  /\ call.op = "getComboMultiplier"
  /\ ~ret.done
  /\ ret' = Returned(getComboMultiplier(call.combo))
  /\ UNCHANGED <<scoreVars, call, clock, frameRan, controllerVars, inputVars>>

CallFindMatchingNote ==
  /\ call.op = "findMatchingNote"
  /\ ~ret.done
  /\ ret' = Returned(findMatchingNote(call.notes, call.direction,
                                      call.currentTime))
  /\ UNCHANGED <<scoreVars, call, clock, frameRan, controllerVars, inputVars>>

CallCalculateGrade ==
  /\ call.op = "calculateGrade"
  /\ ~ret.done
  /\ ret' = Returned(calculateGrade(call.percentage, call.isFullMarvelous))
  /\ UNCHANGED <<scoreVars, call, clock, frameRan, controllerVars, inputVars>>

CallIsNoteMissed ==
  /\ call.op = "isNoteMissed"
  /\ ~ret.done
  /\ ret' = Returned(isNoteMissed(call.noteTime, call.currentTime))
  /\ UNCHANGED <<scoreVars, call, clock, frameRan, controllerVars, inputVars>>

CallIsNoteJudgeable ==
  /\ call.op = "isNoteJudgeable"
  /\ ~ret.done
  /\ ret' = Returned(isNoteJudgeable(call.noteTime, call.currentTime))
  /\ UNCHANGED <<scoreVars, call, clock, frameRan, controllerVars, inputVars>>

CallJudgeNote ==
  /\ call.op = "judgeNote"
  /\ ~ret.done
  /\ ret' = Returned(judgeNote(call.note, call.inputTime))
  /\ UNCHANGED <<scoreVars, call, clock, frameRan, controllerVars, inputVars>>

NextPure ==
  \/ CallCalculateJudgment
  \/ CallIsNoteMissed
  \/ CallIsNoteJudgeable
  \/ CallJudgeNote
  \/ CallCalculateGrade
  \/ CallGetComboMultiplier
  \/ CallFindMatchingNote

SpecPure == InitPure /\ [][NextPure]_vars

(***************************************************************************)
(* core/game.ts and input/index.ts: one play, run in silent mode (the      *)
(* audio of the song failed to load, so the clock is performance.now()).   *)
(***************************************************************************)
PREP_TIME == 3000

countdownDuration == 1000

DEFAULT_SETTINGS == [audioOffset |-> 0, visualOffset |-> 0]

\* the song and the chart that is played: a jump at 0 and a second left
\* arrow 90 ms later
Song == [id |-> "song", offset |-> 0]

Chart ==
  [notes |->
     <<[id |-> 0, time |-> 0, direction |-> "left", type |-> "tap",
        started |-> FALSE, judged |-> FALSE, judgment |-> Null],
       [id |-> 1, time |-> 0, direction |-> "right", type |-> "tap",
        started |-> FALSE, judged |-> FALSE, judgment |-> Null],
       [id |-> 2, time |-> 90, direction |-> "left", type |-> "tap",
        started |-> FALSE, judged |-> FALSE, judgment |-> Null]>>]

\* the clock advances by a frame-sized step, by the length of a countdown
\* or by the length of one count of it
ClockSteps == [fine |-> 45, coarse |-> 3000, count |-> 1000]

Event(type, data) == [type |-> type, data |-> data]

\* A note is an object. An element of activeNotes records in 'original'
\* which object it is: 0 for an object of its own, k for the very object
\* that chart.notes[k] is.
\* the notes array is copied but its note objects are shared
copyNotes_sameObjects(notes) ==
  [i \in 1..Len(notes) |->
     [id |-> notes[i].id, time |-> notes[i].time,
      direction |-> notes[i].direction, type |-> notes[i].type,
      started |-> notes[i].started, judged |-> notes[i].judged,
      judgment |-> notes[i].judgment, original |-> i]]

\* chart.notes.map((n) => ({ ...n, judged: false })): a new object per note
copyNotes(notes) ==
  [i \in 1..Len(notes) |->
     [id |-> notes[i].id, time |-> notes[i].time,
      direction |-> notes[i].direction, type |-> notes[i].type,
      started |-> notes[i].started, judged |-> FALSE,
      judgment |-> notes[i].judgment, original |-> 0]]

\* the GameplayState that start builds
started(song, chart) ==
  [song |-> song,
   chart |-> chart,
   activeNotes |-> copyNotes(chart.notes),
   judgments |-> <<>>,
   score |-> 0,
   combo |-> 0,
   maxCombo |-> 0,
   paused |-> FALSE,
   ended |-> FALSE]

\* what the notes of the chart are after the writes of a frame to the
\* active notes: a write to an object of the chart shows in the chart
seenInChart(notes, activeNotes) ==
  [k \in 1..Len(notes) |->
     IF \E i \in 1..Len(activeNotes) : activeNotes[i].original = k
     THEN LET note ==
                activeNotes[CHOOSE i \in 1..Len(activeNotes) :
                              activeNotes[i].original = k]
          IN [id |-> note.id, time |-> note.time,
              direction |-> note.direction, type |-> note.type,
              started |-> note.started, judged |-> note.judged,
              judgment |-> note.judgment]
     ELSE notes[k]]

\* GameController.start(song, chart), after the audio failed to load
InitGame ==
  /\ JUDGMENT_HEALTH = SteepHealth
  /\ touchedZero = FALSE
  /\ call = NoCall
  /\ ret = Pending
  /\ clock = 0
  /\ frameRan = FALSE
  /\ gameplay = started(Song, Chart)
  /\ scoreState = createScoreState(Len(Chart.notes))
  /\ enabled = TRUE
  /\ inputBuffer = <<>>
  /\ heldKeys = {}
  /\ keyCount = 0
  /\ countdown = [active |-> TRUE, count |-> 3, startTime |-> 0]
  /\ running = TRUE
  /\ frameRequested = TRUE
  /\ gameStartTime = 0
  /\ audioStartOffset = 0
  /\ events = <<>>
  /\ hasAudio = FALSE
  /\ audioManager = NoAudio
  /\ timers = {}

\* the song is in play: started, not counting down, not paused
InPlay ==
  /\ gameplay # Null
  /\ ~countdown.active
  /\ ~gameplay.paused

\* performance.now() moves on; the browser runs a requested frame callback
\* at least once between two steps of the clock and a timer callback when
\* it is due, and the clock is followed
\* in fine steps only while the song is in play and the first note is in
\* reach
AdvanceClock(d) ==
  /\ clock + d <= MaxClock
  /\ frameRequested => frameRan
  /\ \A due \in timers : due > clock
  /\ frameRan' = FALSE
  /\ \/ d = ClockSteps.coarse
     \/ d = ClockSteps.count
     \/ /\ InPlay
        /\ 2 * (clock - gameStartTime + audioStartOffset) >= -TIMING_WINDOWS.boo
        /\ (clock % ClockSteps.coarse) + d <= MaxFine * ClockSteps.fine
  /\ clock' = clock + d
  /\ UNCHANGED <<scoreVars, pureVars, controllerVars, inputVars>>

\* the key codes a callback is given: the arrows of the two lanes of the
\* chart and a key that is no arrow
Codes == {"ArrowLeft", "ArrowRight", "Space"}

\* types: KEY_TO_DIRECTION; a code outside its domain has no direction
KEY_TO_DIRECTION ==
  [ArrowLeft |-> "left", ArrowDown |-> "down", ArrowUp |-> "up",
   ArrowRight |-> "right"]

\* handleKeyDown without the test of e.repeat
handleKeyDown_buffersRepeats(e) ==
  /\ enabled
  /\ Len(inputBuffer) < MaxBuffer
  /\ keyCount < MaxKeys
  /\ keyCount' = keyCount + 1
  /\ call' = [op |-> "handleKeyDown", e |-> e]
  /\ IF e.code \notin DOMAIN KEY_TO_DIRECTION
     THEN UNCHANGED <<heldKeys, inputBuffer>>
     ELSE /\ heldKeys' = heldKeys \cup {KEY_TO_DIRECTION[e.code]}
          /\ inputBuffer' = Append(inputBuffer,
               [direction |-> KEY_TO_DIRECTION[e.code], timestamp |-> clock,
                pressed |-> TRUE])
  /\ UNCHANGED <<scoreVars, ret, clock, frameRan, controllerVars, enabled>>

\* InputManager.handleKeyDown, the keydown listener while input is enabled
handleKeyDown(e) ==
  /\ enabled
  /\ Len(inputBuffer) < MaxBuffer
  /\ keyCount < MaxKeys
  /\ keyCount' = keyCount + 1
  /\ call' = [op |-> "handleKeyDown", e |-> e]
  /\ IF e.repeat \/ e.code \notin DOMAIN KEY_TO_DIRECTION
     THEN UNCHANGED <<heldKeys, inputBuffer>>
     ELSE /\ heldKeys' = heldKeys \cup {KEY_TO_DIRECTION[e.code]}
          /\ inputBuffer' = Append(inputBuffer,
               [direction |-> KEY_TO_DIRECTION[e.code], timestamp |-> clock,
                pressed |-> TRUE])
  /\ UNCHANGED <<scoreVars, ret, clock, frameRan, controllerVars, enabled>>

\* InputManager.handleKeyUp, the keyup listener while input is enabled
handleKeyUp(e) ==
  /\ enabled
  /\ Len(inputBuffer) < MaxBuffer
  /\ keyCount < MaxKeys
  /\ keyCount' = keyCount + 1
  /\ call' = [op |-> "handleKeyUp", e |-> e]
  /\ IF e.code \notin DOMAIN KEY_TO_DIRECTION
     THEN UNCHANGED <<heldKeys, inputBuffer>>
     ELSE /\ heldKeys' = heldKeys \ {KEY_TO_DIRECTION[e.code]}
          /\ inputBuffer' = Append(inputBuffer,
               [direction |-> KEY_TO_DIRECTION[e.code], timestamp |-> clock,
                pressed |-> FALSE])
  /\ UNCHANGED <<scoreVars, ret, clock, frameRan, controllerVars, enabled>>

\* GameController.getCurrentGameTime
getCurrentGameTime ==
  IF countdown.active THEN -PREP_TIME - 1000
  ELSE IF hasAudio /\ audioManager.isPlaying
       THEN audioCurrentTimeMs(audioManager, clock) + audioStartOffset
       ELSE clock - gameStartTime + audioStartOffset

\* what processInputs and checkMisses change, threaded through their loops
Progress(activeNotes, judgments, score, combo, maxCombo, emitted) ==
  [activeNotes |-> activeNotes, judgments |-> judgments,
   scoreState |-> score, combo |-> combo, maxCombo |-> maxCombo,
   events |-> emitted]

\* the loop body in which a press that lands on no note breaks the combo
processInput_strayBreaksCombo(p, input) ==
  IF ~input.pressed THEN p
  ELSE
    LET inputGameTime == input.timestamp - gameStartTime + audioStartOffset
        i == findMatchingIndex(p.activeNotes, input.direction, inputGameTime)
    IN IF i = 0
       THEN [p EXCEPT !.combo = 0,
                      !.events = Append(@, Event("combo-break", Null))]
       ELSE
         LET judgment == judgeNote(p.activeNotes[i], inputGameTime)
             prevCombo == p.scoreState.combo
             newScore == applyJudgment(p.scoreState, judgment.grade)
         IN Progress(
              [p.activeNotes EXCEPT ![i].judged = TRUE,
                                    ![i].judgment = judgment],
              Append(p.judgments, judgment),
              newScore, newScore.combo, newScore.maxCombo,
              p.events \o <<Event("judgment", judgment)>>
                \o (IF prevCombo > 0 /\ newScore.combo = 0
                    THEN <<Event("combo-break", Null)>> ELSE <<>>))

\* the body of the loop of processInputs for one buffered input
processInput(p, input) ==
  IF ~input.pressed THEN p
  ELSE
    LET inputGameTime == input.timestamp - gameStartTime + audioStartOffset
        i == findMatchingIndex(p.activeNotes, input.direction, inputGameTime)
    IN IF i = 0 THEN p
       ELSE
         LET judgment == judgeNote(p.activeNotes[i], inputGameTime)
             prevCombo == p.scoreState.combo
             newScore == applyJudgment(p.scoreState, judgment.grade)
         IN Progress(
              [p.activeNotes EXCEPT ![i].judged = TRUE,
                                    ![i].judgment = judgment],
              Append(p.judgments, judgment),
              newScore, newScore.combo, newScore.maxCombo,
              p.events \o <<Event("judgment", judgment)>>
                \o (IF prevCombo > 0 /\ newScore.combo = 0
                    THEN <<Event("combo-break", Null)>> ELSE <<>>))

\* GameController.processInputs over the flushed inputs from index k on
RECURSIVE processInputs(_, _, _)
processInputs(p, inputs, k) ==
  IF k > Len(inputs) THEN p
  ELSE processInputs(processInput(p, inputs[k]), inputs, k + 1)

\* the loop body of checkMisses without the skip of judged notes
checkMiss_noJudgedSkip(p, i, currentTime) ==
  LET note == p.activeNotes[i]
  IN IF isNoteMissed(note.time, currentTime)
     THEN
       LET judgment == [noteId |-> note.id,
                        timingDiff |-> currentTime - note.time,
                        grade |-> "miss",
                        time |-> currentTime]
           prevCombo == p.scoreState.combo
           newScore == applyJudgment(p.scoreState, judgment.grade)
       IN Progress(
            [p.activeNotes EXCEPT ![i].judged = TRUE,
                                  ![i].judgment = judgment],
            Append(p.judgments, judgment),
            newScore, newScore.combo, newScore.maxCombo,
            p.events \o <<Event("judgment", judgment)>>
              \o (IF prevCombo > 0
                  THEN <<Event("combo-break", Null)>> ELSE <<>>))
     ELSE p

\* the loop body of checkMisses with a note promoted one frame late
checkMiss_afterGrace(p, i, currentTime) ==
  LET note == p.activeNotes[i]
  IN IF note.judged THEN p
     ELSE IF isNoteMissed(note.time + ClockSteps.fine, currentTime)
     THEN
       LET judgment == [noteId |-> note.id,
                        timingDiff |-> currentTime - note.time,
                        grade |-> "miss",
                        time |-> currentTime]
           prevCombo == p.scoreState.combo
           newScore == applyJudgment(p.scoreState, judgment.grade)
       IN Progress(
            [p.activeNotes EXCEPT ![i].judged = TRUE,
                                  ![i].judgment = judgment],
            Append(p.judgments, judgment),
            newScore, newScore.combo, newScore.maxCombo,
            p.events \o <<Event("judgment", judgment)>>
              \o (IF prevCombo > 0
                  THEN <<Event("combo-break", Null)>> ELSE <<>>))
     ELSE p

\* the body of the loop of checkMisses for the note at index i
checkMiss(p, i, currentTime) ==
  LET note == p.activeNotes[i]
  IN IF note.judged THEN p
     ELSE IF isNoteMissed(note.time, currentTime)
     THEN
       LET judgment == [noteId |-> note.id,
                        timingDiff |-> currentTime - note.time,
                        grade |-> "miss",
                        time |-> currentTime]
           prevCombo == p.scoreState.combo
           newScore == applyJudgment(p.scoreState, judgment.grade)
       IN Progress(
            [p.activeNotes EXCEPT ![i].judged = TRUE,
                                  ![i].judgment = judgment],
            Append(p.judgments, judgment),
            newScore, newScore.combo, newScore.maxCombo,
            p.events \o <<Event("judgment", judgment)>>
              \o (IF prevCombo > 0
                  THEN <<Event("combo-break", Null)>> ELSE <<>>))
     ELSE p

\* GameController.checkMisses over the notes from index i on
RECURSIVE checkMisses(_, _, _)
checkMisses(p, i, currentTime) ==
  IF i > Len(p.activeNotes) THEN p
  ELSE checkMisses(checkMiss(p, i, currentTime), i + 1, currentTime)

\* the frame promotes the missed notes before it reads the inputs
frameProgress_missesFirst(p, inputs, currentTime) ==
  processInputs(checkMisses(p, 1, currentTime), inputs, 1)

\* the two calls of loop in play: processInputs(currentTime), then
\* checkMisses(currentTime)
frameProgress(p, inputs, currentTime) ==
  checkMisses(processInputs(p, inputs, 1), 1, currentTime)

\* the condition of checkSongEnd, with the audio end read whether or not
\* there is audio
songEnds_audioUntested(activeNotes, currentTime) ==
  LET allJudged == \A i \in 1..Len(activeNotes) : activeNotes[i].judged
      pastLastNote ==
        IF Len(activeNotes) > 0
        THEN currentTime > activeNotes[Len(activeNotes)].time + 2000
        ELSE TRUE
      audioDuration == audioManager.duration
      pastAudioEnd == audioDuration > 0 /\ currentTime > audioDuration + 1000
  IN (allJudged /\ pastLastNote) \/ pastAudioEnd

\* the condition of checkSongEnd under which it calls endSong
songEnds(activeNotes, currentTime) ==
  LET allJudged == \A i \in 1..Len(activeNotes) : activeNotes[i].judged
      pastLastNote ==
        IF Len(activeNotes) > 0
        THEN currentTime > activeNotes[Len(activeNotes)].time + 2000
        ELSE TRUE
      audioDuration == audioManager.duration
      pastAudioEnd ==
        IF hasAudio
        THEN audioDuration > 0 /\ currentTime > audioDuration + 1000
        ELSE FALSE
  IN (allJudged /\ pastLastNote) \/ pastAudioEnd

\* GameController.loop while the countdown is active: handleCountdown
CountdownFrame ==
  /\ frameRequested /\ running /\ gameplay # Null
  /\ countdown.active
  /\ LET elapsed == clock - countdown.startTime
         currentCount == 3 - (elapsed \div countdownDuration)
     IN IF currentCount <= 0
        THEN /\ countdown' = [countdown EXCEPT !.active = FALSE]
             /\ gameStartTime' = clock
             /\ audioStartOffset' =
                  gameplay.song.offset + DEFAULT_SETTINGS.audioOffset
                    - PREP_TIME
             /\ timers' = IF hasAudio THEN timers \cup {clock + PREP_TIME}
                          ELSE timers
        ELSE /\ countdown' = [countdown EXCEPT !.count = currentCount]
             /\ UNCHANGED <<gameStartTime, audioStartOffset, timers>>
  /\ frameRequested' = TRUE
  /\ frameRan' = TRUE
  /\ UNCHANGED <<scoreVars, pureVars, clock, gameplay, running, events,
                 inputVars, hasAudio, audioManager>>

\* GameController.loop while paused: it renders and asks for the next frame
PausedFrame ==
  /\ frameRequested /\ running /\ gameplay # Null
  /\ ~countdown.active
  /\ gameplay.paused
  /\ frameRequested' = TRUE
  /\ frameRan' = TRUE
  /\ UNCHANGED <<scoreVars, pureVars, clock, gameplay, running, countdown,
                 gameStartTime, audioStartOffset, events, inputVars,
                 audioVars>>

\* GameController.loop in play: processInputs, checkMisses, the score
\* display, checkSongEnd and endSong
ActiveFrame ==
  /\ frameRequested /\ running /\ gameplay # Null
  /\ ~countdown.active
  /\ ~gameplay.paused
  /\ LET currentTime == getCurrentGameTime
         inputs == inputBuffer
         p0 == Progress(gameplay.activeNotes, gameplay.judgments, scoreState,
                        gameplay.combo, gameplay.maxCombo, events)
         p2 == frameProgress(p0, inputs, currentTime)
         ends == songEnds(p2.activeNotes, currentTime) /\ ~gameplay.ended
         played == [gameplay EXCEPT !.activeNotes = p2.activeNotes,
                                    !.chart.notes =
                                       seenInChart(@, p2.activeNotes),
                                    !.judgments = p2.judgments,
                                    !.combo = p2.combo,
                                    !.maxCombo = p2.maxCombo,
                                    !.score = calculateFinalScore(p2.scoreState),
                                    !.ended = ends]
     IN /\ scoreState' = p2.scoreState
        /\ gameplay' = played
        /\ inputBuffer' = <<>>
        /\ UNCHANGED keyCount
        /\ IF ends
           THEN /\ audioManager' = IF hasAudio THEN audioHalt(audioManager)
                                    ELSE audioManager
                /\ enabled' = FALSE
                /\ heldKeys' = {}
                /\ running' = FALSE
                /\ events' = p2.events \o
                     <<Event("song-end", generateResults(p2.scoreState))>>
           ELSE /\ UNCHANGED <<audioManager, enabled, heldKeys, running>>
                /\ events' = p2.events
        /\ frameRequested' = (running' /\ ~played.ended)
  /\ frameRan' = TRUE
  /\ UNCHANGED <<JUDGMENT_HEALTH, touchedZero, pureVars, clock, countdown,
                 gameStartTime, audioStartOffset, hasAudio, timers>>

\* pause without the test of countdown.active
pause_duringCountdown ==
  /\ gameplay # Null
  /\ ~gameplay.paused /\ ~gameplay.ended
  /\ gameplay' = [gameplay EXCEPT !.paused = TRUE]
  /\ inputBuffer' = <<>>
  /\ heldKeys' = {}
  /\ audioManager' = IF hasAudio THEN audioHalt(audioManager)
                       ELSE audioManager
  /\ events' = Append(events, Event("pause", Null))
  /\ UNCHANGED <<scoreVars, pureVars, clock, frameRan, running,
                 frameRequested, countdown, gameStartTime, audioStartOffset,
                 enabled, keyCount, hasAudio, timers>>

\* pause without the test of state.ended
pause_afterEnd ==
  /\ gameplay # Null
  /\ ~gameplay.paused /\ ~countdown.active
  /\ gameplay' = [gameplay EXCEPT !.paused = TRUE]
  /\ inputBuffer' = <<>>
  /\ heldKeys' = {}
  /\ audioManager' = IF hasAudio THEN audioHalt(audioManager)
                       ELSE audioManager
  /\ events' = Append(events, Event("pause", Null))
  /\ UNCHANGED <<scoreVars, pureVars, clock, frameRan, running,
                 frameRequested, countdown, gameStartTime, audioStartOffset,
                 enabled, keyCount, hasAudio, timers>>

\* GameController.pause
pause ==
  /\ gameplay # Null
  /\ ~gameplay.paused /\ ~gameplay.ended /\ ~countdown.active
  /\ gameplay' = [gameplay EXCEPT !.paused = TRUE]
  /\ inputBuffer' = <<>>
  /\ heldKeys' = {}
  /\ audioManager' = IF hasAudio THEN audioHalt(audioManager)
                       ELSE audioManager
  /\ events' = Append(events, Event("pause", Null))
  /\ UNCHANGED <<scoreVars, pureVars, clock, frameRan, running,
                 frameRequested, countdown, gameStartTime, audioStartOffset,
                 enabled, keyCount, hasAudio, timers>>

\* GameController.resume
resume ==
  /\ gameplay # Null
  /\ gameplay.paused
  /\ countdown' = [active |-> TRUE, count |-> 3, startTime |-> clock]
  /\ gameplay' = [gameplay EXCEPT !.paused = FALSE]
  /\ UNCHANGED <<scoreVars, pureVars, clock, frameRan, running,
                 frameRequested, gameStartTime, audioStartOffset, events,
                 inputVars, audioVars>>

\* GameController.start(song, chart) for the chart that was played, called
\* from the results screen once the song has ended (retryLastSong); the
\* audio fails to load again
start ==
  /\ gameplay # Null
  /\ gameplay.ended
  /\ gameplay' = started(gameplay.song, gameplay.chart)
  /\ scoreState' = createScoreState(Len(gameplay.chart.notes))
  /\ enabled' = TRUE
  /\ inputBuffer' = IF enabled THEN inputBuffer ELSE <<>>
  /\ heldKeys' = IF enabled THEN heldKeys ELSE {}
  /\ countdown' = [active |-> TRUE, count |-> 3, startTime |-> clock]
  /\ running' = TRUE
  /\ frameRequested' = TRUE
  /\ hasAudio' = FALSE
  /\ UNCHANGED <<JUDGMENT_HEALTH, touchedZero, pureVars, clock, frameRan,
                 gameStartTime, audioStartOffset, events, keyCount,
                 audioManager, timers>>

NextGame ==
  \/ start
  \/ \E d \in {ClockSteps.fine, ClockSteps.coarse} : AdvanceClock(d)
  \/ \E code \in Codes, repeat \in BOOLEAN :
       handleKeyDown([code |-> code, repeat |-> repeat])
  \/ \E code \in Codes : handleKeyUp([code |-> code, repeat |-> FALSE])
  \/ CountdownFrame
  \/ PausedFrame
  \/ ActiveFrame
  \/ pause
  \/ resume

Spec == InitGame /\ [][NextGame]_vars

\* performance.now() is read through differences only (timestamp -
\* countdown.startTime, now - gameStartTime, input.timestamp -
\* gameStartTime), so its origin is free: when the next 3000 ms step would
\* pass MaxClock in a play that is neither paused nor ended, the origin is
\* moved forward by whole steps of 3000 ms, and the events handed to the
\* listeners so far are let go
WrapClock ==
  LET shift == (clock \div ClockSteps.coarse) * ClockSteps.coarse
  IN /\ clock + ClockSteps.coarse > MaxClock
     /\ gameplay # Null /\ ~gameplay.paused /\ ~gameplay.ended
     /\ clock' = clock - shift
     /\ gameStartTime' = gameStartTime - shift
     /\ countdown' = [countdown EXCEPT !.startTime = @ - shift]
     /\ inputBuffer' = [k \in DOMAIN inputBuffer |->
                          [inputBuffer[k] EXCEPT !.timestamp = @ - shift]]
     /\ events' = <<>>
     /\ audioManager' = IF audioManager.isPlaying
                         THEN [audioManager EXCEPT !.startedAt = @ - shift]
                         ELSE audioManager
     /\ timers' = {due - shift : due \in timers}
     /\ UNCHANGED <<scoreVars, pureVars, frameRan, gameplay, running,
                    frameRequested, audioStartOffset, heldKeys, enabled,
                    keyCount, hasAudio>>

\* one play that is never stopped, on a clock without end that is read
\* every 3000 ms
NextLive ==
  \/ AdvanceClock(ClockSteps.coarse)
  \/ WrapClock
  \/ \E code \in Codes, repeat \in BOOLEAN :
       handleKeyDown([code |-> code, repeat |-> repeat])
  \/ \E code \in Codes : handleKeyUp([code |-> code, repeat |-> FALSE])
  \/ CountdownFrame
  \/ PausedFrame
  \/ ActiveFrame
  \/ pause
  \/ resume

\* a frame of the song in play is requested and has not run at this time
FrameDue == InPlay /\ running /\ frameRequested /\ ~frameRan

\* a frame of the song in play has run at this time, which is later than
\* the time at which the countdown finished
ActiveFrameRan == InPlay /\ frameRan /\ clock # gameStartTime

\* the browser keeps running the requested frame (in play: if a frame is
\* due again and again, a frame in play runs again and again) and the clock
\* keeps advancing, also while the song is in play; a paused game is resumed
SpecLive ==
  /\ InitGame
  /\ [][NextLive]_vars
  /\ WF_vars(CountdownFrame)
  /\ (<>[](~FrameDue) \/ []<>ActiveFrameRan)
  /\ WF_vars(AdvanceClock(ClockSteps.coarse))
  /\ SF_vars(InPlay /\ AdvanceClock(ClockSteps.coarse))
  /\ WF_vars(WrapClock)
  /\ WF_vars(resume)


(***************************************************************************)
(* The play with audio: the deferred start of the playback, the end of the *)
(* audio and stop().                                                        *)
(***************************************************************************)
\* a chart whose last note comes after the end of a short audio file
LongChart ==
  [notes |->
     <<[id |-> 0, time |-> 0, direction |-> "left", type |-> "tap",
        started |-> FALSE, judged |-> FALSE, judgment |-> Null],
       [id |-> 1, time |-> 3000, direction |-> "left", type |-> "tap",
        started |-> FALSE, judged |-> FALSE, judgment |-> Null]>>]

\* the values of audioManager.getDurationMs(): no buffer, a short file
Durations == {0, 1000}

\* GameController.start(song, chart): the audio loads or fails to load
InitAudio ==
  /\ JUDGMENT_HEALTH = SteepHealth
  /\ touchedZero = FALSE
  /\ call = NoCall
  /\ ret = Pending
  /\ clock = 0
  /\ frameRan = FALSE
  /\ \E chart \in {Chart, LongChart} :
       /\ gameplay = started(Song, chart)
       /\ scoreState = createScoreState(Len(chart.notes))
  /\ enabled = TRUE
  /\ inputBuffer = <<>>
  /\ heldKeys = {}
  /\ keyCount = 0
  /\ countdown = [active |-> TRUE, count |-> 3, startTime |-> 0]
  /\ running = TRUE
  /\ frameRequested = TRUE
  /\ gameStartTime = 0
  /\ audioStartOffset = 0
  /\ events = <<>>
  /\ hasAudio \in BOOLEAN
  /\ \E duration \in Durations :
       audioManager = [NoAudio EXCEPT !.duration = duration]
  /\ timers = {}

\* the callback of the setTimeout of handleCountdown, run when it is due
AudioTimer ==
  /\ \E due \in timers :
       /\ due <= clock
       /\ timers' = timers \ {due}
  /\ audioManager' =
       IF running /\ ~(gameplay # Null /\ gameplay.paused)
       THEN audioPlay(audioManager, Max(0, -gameplay.song.offset), clock)
       ELSE audioManager
  /\ UNCHANGED <<scoreVars, pureVars, clock, frameRan, gameplay, running,
                 frameRequested, countdown, gameStartTime, audioStartOffset,
                 events, inputVars, hasAudio>>

\* the playback reaches the end of the audio
AudioEnds ==
  /\ audioManager.isPlaying
  /\ audioCurrentTimeMs(audioManager, clock) >= audioManager.duration
  /\ audioManager' = audioHalt(audioManager)
  /\ UNCHANGED <<scoreVars, pureVars, clock, frameRan, gameplay, running,
                 frameRequested, countdown, gameStartTime, audioStartOffset,
                 events, inputVars, hasAudio, timers>>

\* GameController.stop
stop ==
  /\ gameplay # Null
  /\ running' = FALSE
  /\ frameRequested' = FALSE
  /\ audioManager' = IF hasAudio THEN audioHalt(audioManager)
                       ELSE audioManager
  /\ enabled' = FALSE
  /\ inputBuffer' = IF enabled THEN <<>> ELSE inputBuffer
  /\ heldKeys' = IF enabled THEN {} ELSE heldKeys
  /\ gameplay' = Null
  /\ scoreState' = Null
  /\ UNCHANGED <<JUDGMENT_HEALTH, touchedZero, pureVars, clock, frameRan,
                 countdown, gameStartTime, audioStartOffset, events,
                 keyCount, hasAudio, timers>>

\* the clock is read every 1000 ms and the player presses the left arrow
NextAudio ==
  \/ AdvanceClock(ClockSteps.count)
  \/ AudioTimer
  \/ AudioEnds
  \/ handleKeyDown([code |-> "ArrowLeft", repeat |-> FALSE])
  \/ CountdownFrame
  \/ PausedFrame
  \/ ActiveFrame
  \/ pause
  \/ resume
  \/ stop

SpecAudio == InitAudio /\ [][NextAudio]_vars


(***************************************************************************)
(* parser/index.ts: parseStpFile.  A file is a sequence of lines; a line   *)
(* is kept as what the parser reads at it: a header with its key and       *)
(* value, a chart fence with its difficulty name and level, a ',', a blank *)
(* or comment line, or any other text as its trimmed characters.  Times    *)
(* are exact fractions of a millisecond.                                   *)
(***************************************************************************)
Blank == [kind |-> "blank"]

Comma == [kind |-> "comma"]

\* '//--- CHART: name (Level level) ---'
Fence(name, level) == [kind |-> "fence", name |-> name, level |-> level]

\* a line of text that is none of the others, trimmed
Text(chars) == [kind |-> "text", chars |-> chars]

\* '#KEY:value'; number is what parseFloat makes of the value
Header(key, value, number) ==
  [kind |-> "header", key |-> key, value |-> value, number |-> number]

\* a '#' line without a colon
BadHeader == [kind |-> "badheader"]

NaN == [nan |-> TRUE, n |-> 0]

Num(n) == [nan |-> FALSE, n |-> n]

ParserError(line, message) == [line |-> line, message |-> message]

CHAR_TO_DIRECTION == [L |-> "left", D |-> "down", U |-> "up", R |-> "right"]

VALID_CHARS == {".", "L", "D", "U", "R"}

VALID_DIFFICULTIES == {"Beginner", "Easy", "Medium", "Hard", "Challenge"}

VALID_MEASURE_LENGTHS == {4, 8, 12, 16, 24, 32, 48, 64, 96, 192}

\* charAt(0).toUpperCase() + slice(1).toLowerCase() on the names in use
normalizeDifficulty ==
  [easy |-> "Easy", EASY |-> "Easy", Easy |-> "Easy", hArD |-> "Hard",
   Expert |-> "Expert", expert |-> "Expert"]

RECURSIVE GCD(_, _)
GCD(a, b) == IF b = 0 THEN Abs(a) ELSE GCD(b, a % b)

\* the fraction num / den (den > 0) in lowest terms
Frac(num, den) ==
  LET g == GCD(Abs(num), den)
  IN [num |-> num \div g, den |-> den \div g]

\* a.time - b.time <= 0
TimeLeq(a, b) == a.num * b.den <= b.num * a.den

\* the headers object, a missing property as Null
NoHeaders ==
  [title |-> Null, artist |-> Null, bpm |-> Null, offset |-> Null,
   music |-> Null, preview |-> Null]

\* the body of the loop of parseHeaders for line i (1-based)
parseHeaderLine(acc, line, i) ==
  IF line.kind = "badheader"
  THEN [acc EXCEPT !.errors =
          Append(@, ParserError(i, "Invalid header format"))]
  ELSE IF line.kind # "header" THEN acc
  ELSE CASE line.key = "TITLE" ->
              [acc EXCEPT !.headers.title = [text |-> line.value]]
         [] line.key = "ARTIST" ->
              [acc EXCEPT !.headers.artist =
                 [text |-> IF line.value = "" THEN "Unknown" ELSE line.value]]
         [] line.key = "BPM" ->
              IF line.number.nan \/ line.number.n <= 0
              THEN [acc EXCEPT !.errors = Append(@, ParserError(i,
                      "Invalid BPM: Must be a positive number."))]
              ELSE [acc EXCEPT !.headers.bpm = line.number]
         [] line.key = "OFFSET" ->
              IF line.number.nan
              THEN [acc EXCEPT !.errors =
                      Append(@, ParserError(i, "Invalid offset"))]
              ELSE [acc EXCEPT !.headers.offset = Num(line.number.n * 1000)]
         [] line.key = "MUSIC" ->
              [acc EXCEPT !.headers.music = [text |-> line.value]]
         [] line.key = "PREVIEW" ->
              IF ~line.number.nan
              THEN [acc EXCEPT !.headers.preview = line.number]
              ELSE acc
         [] OTHER -> acc

RECURSIVE parseHeadersFrom(_, _, _)
parseHeadersFrom(acc, lines, i) ==
  IF i > Len(lines) THEN acc
  ELSE parseHeadersFrom(parseHeaderLine(acc, lines[i], i), lines, i + 1)

parseHeaders(lines) ==
  parseHeadersFrom([headers |-> NoHeaders, errors |-> <<>>], lines, 1)

\* an unknown difficulty falls back to Easy
parseChartDeclaration_defaultEasy(line) ==
  LET difficulty == normalizeDifficulty[line.name]
  IN [difficulty |-> IF difficulty \notin VALID_DIFFICULTIES THEN "Easy"
                     ELSE difficulty,
      level |-> Max(1, Min(20, line.level))]

\* parseChartDeclaration for a fence line that matches CHART_HEADER_REGEX
parseChartDeclaration(line) ==
  LET difficulty == normalizeDifficulty[line.name]
  IN IF difficulty \notin VALID_DIFFICULTIES THEN Null
     ELSE [difficulty |-> difficulty, level |-> Max(1, Min(20, line.level))]

\* the first character of the row from position i on that is not valid,
\* 0 when there is none
RECURSIVE firstInvalidChar(_, _)
firstInvalidChar(row, i) ==
  IF i > Len(row) THEN 0
  ELSE IF row[i] \notin VALID_CHARS THEN i
  ELSE firstInvalidChar(row, i + 1)

\* validateNoteRow that looks at the length only
validateNoteRow_lengthOnly(row, lineNum) ==
  IF Len(row) # 4
  THEN ParserError(lineNum, "Invalid row length: expected 4 characters")
  ELSE Null

validateNoteRow(row, lineNum) ==
  IF Len(row) # 4
  THEN ParserError(lineNum, "Invalid row length: expected 4 characters")
  ELSE IF firstInvalidChar(row, 1) # 0
  THEN ParserError(lineNum, "Invalid character")
  ELSE Null

RECURSIVE parseNoteRowFrom(_, _)
parseNoteRowFrom(row, i) ==
  IF i > Len(row) THEN <<>>
  ELSE (IF row[i] # "." /\ row[i] \in DOMAIN CHAR_TO_DIRECTION
        THEN <<CHAR_TO_DIRECTION[row[i]]>> ELSE <<>>)
         \o parseNoteRowFrom(row, i + 1)

parseNoteRow(row) == parseNoteRowFrom(row, 1)

\* the time of a row: offset + (measureIndex * 4 + beatInMeasure) * msPerBeat
\* with beatInMeasure = (rowIndex / rowCount) * 4 and msPerBeat = 60000 / bpm
rowTime(rowIndex, rowCount, measureIndex, bpm, offset) ==
  Frac(offset * rowCount * bpm
         + (measureIndex * 4 * rowCount + rowIndex * 4) * 60000,
       rowCount * bpm)

\* the loop of processMeasure from the row at rowIndex (0-based) on
RECURSIVE processRows(_, _, _, _, _, _, _)
processRows(measureRows, rowIndex, measureIndex, bpm, offset, noteIdStart, notes) ==
  IF rowIndex >= Len(measureRows) THEN notes
  ELSE
    LET directions == parseNoteRow(measureRows[rowIndex + 1])
        time == rowTime(rowIndex, Len(measureRows), measureIndex, bpm, offset)
        noteId == noteIdStart + Len(notes)
        pushed == [k \in 1..Len(directions) |->
                     [id |-> noteId + k - 1, time |-> time,
                      direction |-> directions[k], type |-> "tap",
                      judged |-> FALSE]]
    IN processRows(measureRows, rowIndex + 1, measureIndex, bpm, offset,
                   noteIdStart, notes \o pushed)

processMeasure(measureRows, measureIndex, bpm, offset, noteIdStart) ==
  LET rowCount == Len(measureRows)
  IN [notes |-> processRows(measureRows, 0, measureIndex, bpm, offset,
                            noteIdStart, <<>>),
      errors |-> IF rowCount \notin VALID_MEASURE_LENGTHS
                    /\ (rowCount < 1 \/ rowCount > 192)
                 THEN <<ParserError(0, "Unusual measure length")>>
                 ELSE <<>>]

\* Array.prototype.sort((a, b) => a.time - b.time): a stable sort
RECURSIVE insertByTime(_, _)
insertByTime(sorted, note) ==
  IF Len(sorted) = 0 THEN <<note>>
  ELSE IF TimeLeq(sorted[Len(sorted)].time, note.time)
  THEN Append(sorted, note)
  ELSE Append(insertByTime(SubSeq(sorted, 1, Len(sorted) - 1), note),
              sorted[Len(sorted)])

RECURSIVE sortByTime(_)
sortByTime(notes) ==
  IF Len(notes) = 0 THEN <<>>
  ELSE insertByTime(sortByTime(SubSeq(notes, 1, Len(notes) - 1)),
                    notes[Len(notes)])

\* the locals of parseStpFile when its loop starts; arrays holds the notes
\* arrays, which a chart and currentChart refer to by index
parseStart(headerErrors) ==
  [errors |-> headerErrors,
   charts |-> <<>>,
   arrays |-> <<>>,
   currentChart |-> Null,
   currentMeasure |-> [rows |-> <<>>, startLine |-> 0],
   measureIndex |-> 0,
   noteId |-> 0]

\* 'if (currentMeasure.rows.length > 0)' with the processMeasure call, the
\* push of its notes and of its errors; countNotes is 'noteId += notes.length'
flushMeasure(st, headers, countNotes) ==
  IF Len(st.currentMeasure.rows) > 0
  THEN
    LET offset == IF headers.offset = Null THEN 0 ELSE headers.offset.n
        r == processMeasure(st.currentMeasure.rows, st.measureIndex,
                            headers.bpm.n, offset, st.noteId)
    IN [st EXCEPT
          !.arrays[st.currentChart.notes] = @ \o r.notes,
          !.noteId = IF countNotes THEN @ + Len(r.notes) ELSE @,
          !.errors = @ \o
            [k \in 1..Len(r.errors) |->
               [r.errors[k] EXCEPT
                  !.line = IF @ # 0 THEN @ ELSE st.currentMeasure.startLine]]]
  ELSE st

\* charts.push of the current chart; sort orders its notes array in place
pushChart(st) ==
  [st EXCEPT
     !.arrays[st.currentChart.notes] = sortByTime(@),
     !.charts = Append(@, [difficulty |-> st.currentChart.difficulty,
                           level |-> st.currentChart.level,
                           notes |-> st.currentChart.notes])]

\* the chart is pushed with the rows that were pending left out
saveChart_dropsPending(st, headers, countNotes) == pushChart(st)

\* 'Save previous chart' and 'Save final chart': the pending measure is
\* processed, then the chart is pushed
saveChart(st, headers, countNotes) ==
  pushChart(flushMeasure(st, headers, countNotes))

\* the body of the loop of parseStpFile for line i (1-based)
parseLine(st, headers, line, i) ==
  CASE line.kind \in {"blank", "header", "badheader"} -> st
    [] line.kind = "fence" ->
         LET saved == IF st.currentChart # Null
                      THEN saveChart(st, headers, TRUE)
                      ELSE st
             chartDecl == parseChartDeclaration(line)
         IN IF chartDecl # Null
            THEN [saved EXCEPT
                    !.arrays = Append(@, <<>>),
                    !.currentChart =
                       [difficulty |-> chartDecl.difficulty,
                        level |-> chartDecl.level,
                        notes |-> Len(saved.arrays) + 1],
                    !.currentMeasure = [rows |-> <<>>, startLine |-> i],
                    !.measureIndex = 0,
                    !.noteId = 0]
            ELSE [saved EXCEPT !.errors =
                    Append(@, ParserError(i, "Invalid chart declaration"))]
    [] line.kind = "comma" ->
         LET flushed == IF st.currentChart # Null
                        THEN flushMeasure(st, headers, TRUE)
                        ELSE st
         IN [flushed EXCEPT
               !.measureIndex = @ + 1,
               !.currentMeasure = [rows |-> <<>>, startLine |-> i]]
    [] line.kind = "text" ->
         IF Len(line.chars) = 4 /\ st.currentChart # Null
         THEN LET rowError == validateNoteRow(line.chars, i)
              IN IF rowError # Null
                 THEN [st EXCEPT !.errors = Append(@, rowError)]
                 ELSE [st EXCEPT !.currentMeasure.rows =
                         Append(@, line.chars)]
         ELSE st

RECURSIVE parseLinesFrom(_, _, _, _)
parseLinesFrom(st, headers, lines, i) ==
  IF i > Len(lines) THEN st
  ELSE parseLinesFrom(parseLine(st, headers, lines[i], i), headers, lines,
                      i + 1)

\* only a missing property counts as missing
Falsy_onlyNull(header) == header = Null

\* a missing property and the empty string are falsy
Falsy(header) == header = Null \/ header = [text |-> ""]

parseStpFile(content, songId) ==
  LET lines == content
      parsed == parseHeaders(lines)
      headers == parsed.headers
      errors == parsed.errors
        \o (IF Falsy(headers.title)
            THEN <<ParserError(0, "Missing required header: TITLE")>>
            ELSE <<>>)
        \o (IF Falsy(headers.bpm)
            THEN <<ParserError(0, "Missing required header: BPM")>>
            ELSE <<>>)
        \o (IF Falsy(headers.music)
            THEN <<ParserError(0, "Missing required header: MUSIC")>>
            ELSE <<>>)
  IN IF Falsy(headers.title) \/ Falsy(headers.bpm) \/ Falsy(headers.music)
     THEN [song |-> Null, errors |-> errors]
     ELSE
       LET looped == parseLinesFrom(parseStart(errors), headers, lines, 1)
           final == IF looped.currentChart # Null
                    THEN saveChart(looped, headers, FALSE)
                    ELSE looped
       IN IF Len(final.charts) = 0
          THEN [song |-> Null,
                errors |-> Append(final.errors,
                             ParserError(0, "No valid charts found in file"))]
          ELSE [song |->
                  [id |-> songId,
                   title |-> headers.title.text,
                   artist |-> IF headers.artist = Null THEN "Unknown"
                              ELSE headers.artist.text,
                   bpm |-> headers.bpm.n,
                   offset |-> IF headers.offset = Null THEN 0
                              ELSE headers.offset.n,
                   musicFile |-> headers.music.text,
                   previewStart |-> IF headers.preview = Null THEN 0
                                    ELSE headers.preview.n,
                   charts |-> [k \in 1..Len(final.charts) |->
                      [difficulty |-> final.charts[k].difficulty,
                       level |-> final.charts[k].level,
                       notes |-> final.arrays[final.charts[k].notes]]]],
                errors |-> final.errors]

(***************************************************************************)
(* parseStpFile called once on a file: a block of header lines followed by *)
(* chart lines.                                                            *)
(***************************************************************************)
Title == Header("TITLE", "Test", NaN)

Bpm == Header("BPM", "120", Num(120))

Music == Header("MUSIC", "song.mp3", NaN)

\* the headers of the files of the parser's tests
UsualHeaders == <<Title, Bpm, Music>>

\* header blocks with a header missing, empty, invalid, malformed or given
\* twice, and with the optional headers
HeaderBlocks ==
  {UsualHeaders,
   <<>>,
   <<Bpm, Music>>,
   <<Header("TITLE", "", NaN), Bpm, Music>>,
   <<Title, Music>>,
   <<Title, Header("BPM", "-50", Num(-50)), Music>>,
   <<Title, Header("BPM", "fast", NaN), Music>>,
   <<Title, Bpm>>,
   <<Title, Bpm, Header("MUSIC", "", NaN)>>,
   <<Title>>,
   <<BadHeader, Title, Bpm, Header("BPM", "0", Num(0)), Music>>,
   <<Title, Header("ARTIST", "", NaN), Header("BPM", "200", Num(200)),
     Header("OFFSET", "1", Num(1)), Header("PREVIEW", "30", Num(30)),
     Music>>,
   <<Title, Bpm, Header("OFFSET", "soon", NaN), Music>>}

\* the lines that make a chart: fences with a valid and with an unknown
\* difficulty, the measure separator, rows with one arrow, none and four,
\* and a row with a foreign character
ChartLines ==
  {Fence("easy", 1), Fence("Expert", 1), Comma,
   Text(<<"L", ".", ".", ".">>), Text(<<".", ".", ".", ".">>),
   Text(<<"L", "D", "U", "R">>), Text(<<"L", "X", "U", "R">>)}

\* with them a row that is too short, an empty line and a row with the
\* same letter in two columns
BodyLines ==
  ChartLines \cup {Text(<<"L", ".", ".">>), Blank,
                   Text(<<"L", "L", ".", ".">>)}

\* the lines of a file with several charts: fences of two valid
\* difficulties (one with a level above 20) and of an unknown one, the
\* measure separator, a row with an arrow and a row with none
FenceLines ==
  {Fence("easy", 1), Fence("hArD", 25), Fence("Expert", 1), Comma,
   Text(<<"L", ".", ".", ".">>), Text(<<".", ".", ".", ".">>)}

\* the call, for a file of these header lines and these lines after them
ParseCall(block, body) ==
  [op |-> "parseStpFile", content |-> block \o body, songId |-> "test"]

InitParse ==
  /\ JUDGMENT_HEALTH = GentleHealth
  /\ scoreState = Null
  /\ touchedZero = FALSE
  /\ ret = Pending
  /\ Idle
  /\ \/ \E len \in 0..MaxLines : \E body \in [1..len -> ChartLines] :
          call = ParseCall(UsualHeaders, body)
     \/ \E len \in 0..MaxFenceLines : \E body \in [1..len -> FenceLines] :
          call = ParseCall(UsualHeaders, body)
     \/ \E block \in HeaderBlocks : \E len \in 0..MaxShortLines :
        \E body \in [1..len -> BodyLines] :
          call = ParseCall(block, body)

CallParseStpFile ==
  /\ call.op = "parseStpFile"
  /\ ~ret.done
  /\ ret' = Returned(parseStpFile(call.content, call.songId))
  /\ UNCHANGED <<scoreVars, call, clock, frameRan, controllerVars, inputVars>>

NextParse == CallParseStpFile

SpecParse == InitParse /\ [][NextParse]_vars

(***************************************************************************)
(* timing.ts and parser/index.ts: the time conversions, each called once.  *)
(* Numbers are fractions in lowest terms; the arguments are taken where    *)
(* the double arithmetic of the code is exact: 60000 / bpm is a whole      *)
(* number or a binary fraction, beats are eighths, times are whole         *)
(* multiples of 60000 / (8 * bpm) past the offset.                         *)
(***************************************************************************)
Whole(n) == Frac(n, 1)

\* a + b, a - b, a * b and a / b (b # 0) on fractions
Plus(a, b) == Frac(a.num * b.den + b.num * a.den, a.den * b.den)

Minus(a, b) == Frac(a.num * b.den - b.num * a.den, a.den * b.den)

Times(a, b) == Frac(a.num * b.num, a.den * b.den)

Over(a, b) ==
  IF b.num > 0 THEN Frac(a.num * b.den, a.den * b.num)
  ELSE Frac((0 - a.num) * b.den, a.den * (0 - b.num))

beatToMs(beat, bpm, offset) ==
  LET msPerBeat == Over(Whole(60000), bpm)
  IN Plus(offset, Times(beat, msPerBeat))

\* the offset is left out of the conversion back
msToBeat_noOffset(ms, bpm, offset) ==
  LET msPerBeat == Over(Whole(60000), bpm)
  IN Over(ms, msPerBeat)

msToBeat(ms, bpm, offset) ==
  LET msPerBeat == Over(Whole(60000), bpm)
  IN Over(Minus(ms, offset), msPerBeat)

beatToTime(beat, bpm, offset) ==
  LET msPerBeat == Over(Whole(60000), bpm)
  IN Plus(offset, Times(beat, msPerBeat))

timeToBeat(time, bpm, offset) ==
  LET msPerBeat == Over(Whole(60000), bpm)
  IN Over(Minus(time, offset), msPerBeat)

\* tempos of the tests and two more that divide 60000 exactly in binary
Tempos == {Whole(60), Whole(120), Whole(128), Whole(200)}

\* offsets in ms: the default, the one of the tests and a negative one
Offsets == {Whole(0), Whole(100), Whole(-250)}

Beats == { Frac(n, 8) : n \in (0 - MaxEighths)..MaxEighths }

\* the times that lie a number of eighths of a beat from the offset
TimesAt(bpm, offset) ==
  { Plus(offset, Over(Whole(n * 7500), bpm)) :
      n \in (0 - MaxEighths)..MaxEighths }

InitTime ==
  /\ JUDGMENT_HEALTH = GentleHealth
  /\ scoreState = Null
  /\ touchedZero = FALSE
  /\ ret = Pending
  /\ Idle
  /\ \E bpm \in Tempos : \E offset \in Offsets :
       \/ \E beat \in Beats : \E op \in {"beatToMs", "beatToTime"} :
            call = [op |-> op, beat |-> beat, bpm |-> bpm, offset |-> offset]
       \/ \E ms \in TimesAt(bpm, offset) : \E op \in {"msToBeat", "timeToBeat"} :
            call = [op |-> op, ms |-> ms, bpm |-> bpm, offset |-> offset]

CallBeatToMs ==
  /\ call.op = "beatToMs"
  /\ ~ret.done
  /\ ret' = Returned(beatToMs(call.beat, call.bpm, call.offset))
  /\ UNCHANGED <<scoreVars, call, clock, frameRan, controllerVars, inputVars>>

CallMsToBeat ==
  /\ call.op = "msToBeat"
  /\ ~ret.done
  /\ ret' = Returned(msToBeat(call.ms, call.bpm, call.offset))
  /\ UNCHANGED <<scoreVars, call, clock, frameRan, controllerVars, inputVars>>

CallBeatToTime ==
  /\ call.op = "beatToTime"
  /\ ~ret.done
  /\ ret' = Returned(beatToTime(call.beat, call.bpm, call.offset))
  /\ UNCHANGED <<scoreVars, call, clock, frameRan, controllerVars, inputVars>>

CallTimeToBeat ==
  /\ call.op = "timeToBeat"
  /\ ~ret.done
  /\ ret' = Returned(timeToBeat(call.ms, call.bpm, call.offset))
  /\ UNCHANGED <<scoreVars, call, clock, frameRan, controllerVars, inputVars>>

NextTime ==
  \/ CallBeatToMs
  \/ CallMsToBeat
  \/ CallBeatToTime
  \/ CallTimeToBeat

SpecTime == InitTime /\ [][NextTime]_vars


(***************************************************************************)
(* Properties of a play (Spec)                                             *)
(***************************************************************************)
\* the judgments of the list that judge the note with this id
JudgmentsOf(id) ==
  { i \in 1..Len(gameplay.judgments) : gameplay.judgments[i].noteId = id }

\* a step within one play: not the step that starts the chart again
SamePlay ==
  /\ gameplay # Null
  /\ gameplay' # Null
  /\ gameplay.ended => gameplay'.ended

\* C1: in a play, over any interleaving of frames, key presses and clock
\* steps, each note receives at most one judgment: no note id appears twice
\* in the judgments list (so a hit and a time-based miss never both judge a
\* note), a note is judged exactly when the list holds its judgment, and a
\* judged note stays judged with the judgment it got.
C1_EachNoteJudgedOnce ==
  /\ [](gameplay # Null =>
          \A k \in 1..Len(gameplay.activeNotes) :
            LET note == gameplay.activeNotes[k]
            IN /\ Cardinality(JudgmentsOf(note.id)) <= 1
               /\ note.judged <=> JudgmentsOf(note.id) # {}
               /\ note.judged =>
                    \A i \in JudgmentsOf(note.id) :
                      gameplay.judgments[i] = note.judgment)
  /\ [][SamePlay =>
          /\ Len(gameplay'.judgments) >= Len(gameplay.judgments)
          /\ SubSeq(gameplay'.judgments, 1, Len(gameplay.judgments))
               = gameplay.judgments
          /\ \A k \in 1..Len(gameplay.activeNotes) :
               gameplay.activeNotes[k].judged =>
                 gameplay'.activeNotes[k] = gameplay.activeNotes[k]]_vars

\* the left arrow at 0 was hit 180 ms late, and the right arrow of the same
\* jump was promoted to a miss by the frame at 225 ms, when the left arrow
\* was past its window as well
C1_Witness ==
  /\ gameplay # Null
  /\ Len(gameplay.judgments) >= 2
  /\ gameplay.activeNotes[1].judged
  /\ gameplay.activeNotes[1].judgment.grade = "boo"
  /\ gameplay.activeNotes[1].judgment.timingDiff = 180
  /\ gameplay.activeNotes[2].judged
  /\ gameplay.activeNotes[2].judgment.grade = "miss"
  /\ gameplay.activeNotes[2].judgment.time = 225


(***************************************************************************)
(* Properties of the accumulator (SpecScore)                               *)
(***************************************************************************)
\* C2: after any sequence of applyJudgment calls from createScoreState(n),
\* combo <= maxCombo; maxCombo never decreases from one state to the next,
\* and a boo or miss resets combo to 0 and leaves maxCombo unchanged.
C2_ComboNeverExceedsMax ==
  /\ [](scoreState.combo <= scoreState.maxCombo)
  /\ [][/\ scoreState'.maxCombo >= scoreState.maxCombo
        /\ call'.grade \in {"boo", "miss"} =>
             /\ scoreState'.combo = 0
             /\ scoreState'.maxCombo = scoreState.maxCombo]_vars

\* a boo or miss has just broken a combo of 10 that is still the max combo
C2_Witness ==
  /\ call.op = "applyJudgment"
  /\ call.grade \in {"boo", "miss"}
  /\ scoreState.combo = 0
  /\ scoreState.maxCombo = 10
  /\ scoreState.totalJudged = 11

\* C3: for each health table, health stays within [0, 100] and failed is
\* true exactly when health was 0 in the current or an earlier state (so it
\* is set by the first judgment that brings health to 0 and stays set when
\* health rises again).
C3_HealthClampedFailedSticky ==
  /\ scoreState.health >= 0
  /\ scoreState.health <= 100
  /\ scoreState.failed <=> touchedZero

\* health reached 0 earlier and has recovered since
C3_Witness ==
  /\ scoreState.failed
  /\ touchedZero
  /\ scoreState.health > 0
  /\ scoreState.totalJudged >= 2

\* k judgments of one grade folded into state
RECURSIVE applyTimes(_, _, _)
applyTimes(state, grade, k) ==
  IF k = 0 THEN state
  ELSE applyTimes(applyJudgment(state, grade), grade, k - 1)

\* the state another play reaches with the same number of judgments of
\* each grade, taken worst grade first
Reordered(state) ==
  LET c == state.judgmentCounts
      s0 == createScoreState(state.totalNotes)
      s1 == applyTimes(s0, "miss", c.miss)
      s2 == applyTimes(s1, "boo", c.boo)
      s3 == applyTimes(s2, "good", c.good)
      s4 == applyTimes(s3, "great", c.great)
      s5 == applyTimes(s4, "perfect", c.perfect)
  IN applyTimes(s5, "marvelous", c.marvelous)

\* C4: two judgment sequences from createScoreState(n) with the same number
\* of judgments of each grade have the same final score, percentage and
\* grade, whatever their order and the rawScore each accumulated: every
\* sequence agrees with its reordering worst grade first.
C4_FinalScoreIgnoresOrder ==
  LET other == Reordered(scoreState)
  IN /\ other.judgmentCounts = scoreState.judgmentCounts
     /\ calculateFinalScore(other) = calculateFinalScore(scoreState)
     /\ calculatePercentage(other) = calculatePercentage(scoreState)
     /\ generateResults(other).grade = generateResults(scoreState).grade

\* the two orders accumulated different raw scores and the score is not 0
C4_Witness ==
  /\ Reordered(scoreState).rawScore # scoreState.rawScore
  /\ Reordered(scoreState).maxCombo # scoreState.maxCombo
  /\ scoreState.totalNotes > 0
  /\ calculateFinalScore(scoreState) > 0

\* C7: applyJudgment sets combo to combo + 1 for marvelous, perfect, great
\* and good and to 0 for boo and miss, from any prior combo; it increments
\* by one exactly the judgmentCounts bucket of the judged grade, and
\* totalJudged by one.
C7_ComboAndCounts ==
  [][LET g == call'.grade
     IN /\ scoreState'.combo =
             (IF g \in {"marvelous", "perfect", "great", "good"}
              THEN scoreState.combo + 1 ELSE 0)
        /\ \A h \in Grades :
             scoreState'.judgmentCounts[h] =
               scoreState.judgmentCounts[h] + (IF h = g THEN 1 ELSE 0)
        /\ scoreState'.totalJudged = scoreState.totalJudged + 1]_vars

\* a good has just extended a combo that an earlier boo had reset
C7_Witness ==
  /\ call.op = "applyJudgment"
  /\ call.grade = "good"
  /\ scoreState.judgmentCounts.boo = 1
  /\ scoreState.judgmentCounts.good = 1
  /\ scoreState.combo >= 2
  /\ scoreState.combo < scoreState.maxCombo

\* C8: applyJudgment adds to rawScore the value of the grade (100, 98, 65,
\* 25, 0, 0) times the multiplier of the combo held before the judgment:
\* in an unbroken run of marvelous from combo 0 the 10th adds 100 and the
\* 11th adds 200. Each judgment adds 400 to maxPossibleScore.
C8_ScoreGain ==
  [][LET g == call'.grade
         value == CASE g = "marvelous" -> 100
                    [] g = "perfect" -> 98
                    [] g = "great" -> 65
                    [] g = "good" -> 25
                    [] g = "boo" -> 0
                    [] g = "miss" -> 0
         mult == IF scoreState.combo < 10 THEN 1
                 ELSE IF scoreState.combo < 20 THEN 2
                 ELSE IF scoreState.combo < 30 THEN 3 ELSE 4
         gain == scoreState'.rawScore - scoreState.rawScore
         run == scoreState'.judgmentCounts.marvelous = scoreState'.totalJudged
     IN /\ gain = value * mult
        /\ scoreState'.maxPossibleScore = scoreState.maxPossibleScore + 400
        /\ run /\ scoreState'.totalJudged = 10 => gain = 100
        /\ run /\ scoreState'.totalJudged = 11 => gain = 200]_vars

\* the 11th marvelous of an unbroken run has been applied
C8_Witness ==
  /\ scoreState.judgmentCounts.marvelous = 11
  /\ scoreState.totalJudged = 11
  /\ scoreState.combo = 11
  /\ scoreState.rawScore = 1200
  /\ scoreState.maxPossibleScore = 4400

\* the weighted sum S of the judgment counts
WeightedSum(c) ==
  100 * c.marvelous + 98 * c.perfect + 65 * c.great + 25 * c.good
    + 0 * c.boo + 0 * c.miss

Candidate(note, direction, now) ==
  /\ ~note.judged
  /\ note.direction = direction
  /\ now - note.time >= -180
  /\ now - note.time <= 180

C6_JudgmentWindows ==
  (call.op = "calculateJudgment" /\ ret.done) =>
    LET d == call.timingDiff
        a == IF d < 0 THEN 0 - d ELSE d
    IN /\ ret.value =
            (IF d < -180 THEN "null"
             ELSE IF a <= 22 THEN "marvelous"
             ELSE IF a >= 23 /\ a <= 45 THEN "perfect"
             ELSE IF a >= 46 /\ a <= 90 THEN "great"
             ELSE IF a >= 91 /\ a <= 135 THEN "good"
             ELSE IF a >= 136 /\ a <= 180 THEN "boo"
             ELSE "miss")
       /\ a <= 180 => ret.value = calculateJudgment(0 - d)

\* an early press on the edge of the perfect window
C6_Witness ==
  /\ call.op = "calculateJudgment"
  /\ ret.done
  /\ call.timingDiff = -45
  /\ ret.value = "perfect"

\* C9: getComboMultiplier(c) is 1 for 0..9, 2 for 10..19, 3 for 20..29 and
\* 4 from 30 on; it never exceeds 4 and never decreases as c grows.
C9_ComboMultiplier ==
  (call.op = "getComboMultiplier" /\ ret.done) =>
    LET c == call.combo
    IN /\ ret.value = (IF c <= 9 THEN 1 ELSE IF c <= 19 THEN 2
                       ELSE IF c <= 29 THEN 3 ELSE 4)
       /\ ret.value <= 4
       /\ \A b \in 0..c : getComboMultiplier(b) <= ret.value

\* the first combo of the top tier
C9_Witness ==
  /\ call.op = "getComboMultiplier"
  /\ ret.done
  /\ call.combo = 30
  /\ ret.value = 4

(***************************************************************************)
(* Properties of the results (SpecScore, SpecPure)                         *)
(***************************************************************************)
\* every note of a chart of at least one note has been judged marvelous
AllMarvelous ==
  /\ scoreState.totalNotes >= 1
  /\ scoreState.judgmentCounts.marvelous = scoreState.totalNotes
  /\ scoreState.totalJudged = scoreState.totalNotes

\* C11: when every one of the N >= 1 notes of a chart was judged marvelous,
\* the results have score 1,000,000, percentage 100, grade AAAA (the grade
\* above AAA), isFullCombo true and maxCombo N.
C11_AllMarvelousResults ==
  AllMarvelous =>
    LET r == generateResults(scoreState)
    IN /\ r.score = 1000000
       /\ r.percentage.num = 100 * r.percentage.den
       /\ r.grade = "AAAA"
       /\ r.isFullCombo
       /\ r.maxCombo = scoreState.totalNotes

C11_Witness ==
  /\ AllMarvelous
  /\ scoreState.totalNotes = MaxNotes
  /\ call = [op |-> "applyJudgment", grade |-> "marvelous"]

\* C12: calculateGrade(p, fullMarvelous) is AAAA when fullMarvelous and
\* p >= 100; otherwise AAA for p >= 100, AA for 93 <= p < 100, A for
\* 80 <= p < 93, B for 65 <= p < 80, C for 45 <= p < 65 and D for p < 45;
\* every percentage gets a grade.
C12_GradeTable ==
  (ret.done /\ call.op = "calculateGrade") =>
    LET p == call.percentage
        AtLeast(t) == p.num >= t * p.den
        top == call.isFullMarvelous /\ AtLeast(100)
    IN /\ ret.value \in {"AAAA", "AAA", "AA", "A", "B", "C", "D"}
       /\ top => ret.value = "AAAA"
       /\ (~top /\ AtLeast(100)) => ret.value = "AAA"
       /\ (AtLeast(93) /\ ~AtLeast(100)) => ret.value = "AA"
       /\ (AtLeast(80) /\ ~AtLeast(93)) => ret.value = "A"
       /\ (AtLeast(65) /\ ~AtLeast(80)) => ret.value = "B"
       /\ (AtLeast(45) /\ ~AtLeast(65)) => ret.value = "C"
       /\ ~AtLeast(45) => ret.value = "D"

C12_Witness ==
  /\ ret.done
  /\ call.op = "calculateGrade"
  /\ call.isFullMarvelous
  /\ call.percentage = [num |-> 199, den |-> 2]
  /\ ret.value = "AA"

\* the isFullCombo flag generateResults reports for the accumulated state
reportedFullCombo == generateResults(scoreState).isFullCombo

\* C13: the isFullCombo flag of the results is true exactly when
\* totalJudged > 0 and there is no
\* good, boo or miss judgment; a great, perfect or marvelous judgment does
\* not clear it, and a good judgment clears it while the combo goes on.
C13_FullCombo ==
  /\ [](scoreState # Null =>
          (reportedFullCombo <=>
             /\ scoreState.totalJudged > 0
             /\ scoreState.judgmentCounts.good = 0
             /\ scoreState.judgmentCounts.boo = 0
             /\ scoreState.judgmentCounts.miss = 0))
  /\ [][/\ (/\ call'.grade \in {"great", "perfect", "marvelous"}
            /\ (reportedFullCombo \/ scoreState.totalJudged = 0))
           => reportedFullCombo'
        /\ call'.grade = "good"
           => /\ ~reportedFullCombo'
              /\ scoreState'.combo = scoreState.combo + 1]_vars

C13_Witness ==
  /\ scoreState.judgmentCounts.good = 1
  /\ scoreState.judgmentCounts.great = 1
  /\ scoreState.totalJudged = 2
  /\ scoreState.combo = 2
  /\ ~reportedFullCombo

(***************************************************************************)
(* Properties of the note windows and of judgeNote (SpecPure)              *)
(***************************************************************************)
\* C14: isNoteJudgeable(t, now) holds exactly when -180 <= now - t <= 180
\* and isNoteMissed(t, now) exactly when now - t > 180; the two are never
\* both true, and both are false exactly when the note is more than 180 ms
\* in the future.
C14_MissedAndJudgeable ==
  (ret.done /\ call.op \in {"isNoteMissed", "isNoteJudgeable"}) =>
    LET diff == call.currentTime - call.noteTime
        missed == IF call.op = "isNoteMissed" THEN ret.value
                  ELSE isNoteMissed(call.noteTime, call.currentTime)
        judgeable == IF call.op = "isNoteJudgeable" THEN ret.value
                     ELSE isNoteJudgeable(call.noteTime, call.currentTime)
    IN /\ judgeable <=> (-180 <= diff /\ diff <= 180)
       /\ missed <=> (diff > 180)
       /\ ~(missed /\ judgeable)
       /\ (~missed /\ ~judgeable) <=> (diff < -180)

C14_Witness ==
  /\ ret.done
  /\ call.op = "isNoteMissed"
  /\ call.currentTime - call.noteTime = 180
  /\ ret.value = FALSE

CurrentProgress ==
  Progress(gameplay.activeNotes, gameplay.judgments, scoreState,
           gameplay.combo, gameplay.maxCombo, events)

\* a buffered key press for which findMatchingNote returns null
Stray(input) ==
  /\ input.pressed
  /\ findMatchingNote(gameplay.activeNotes, input.direction,
                      input.timestamp - gameStartTime + audioStartOffset)
       = Null

\* no unjudged note has passed its miss window at the current game time
NoNoteDue ==
  \A i \in 1..Len(gameplay.activeNotes) :
    gameplay.activeNotes[i].judged
      \/ ~isNoteMissed(gameplay.activeNotes[i].time, getCurrentGameTime)

\* C16: a key press for which no matching note exists produces no judgment
\* and no judgment or combo-break event, and leaves the ScoreState, the
\* judgments list and every note's judged flag unchanged: processing such a
\* press changes nothing, and a frame whose inputs are all such presses (or
\* releases), with no note due for a miss, changes none of them.
C16_StrayPressNoEffect ==
  /\ [](InPlay =>
          \A k \in 1..Len(inputBuffer) :
            Stray(inputBuffer[k])
              => processInput(CurrentProgress, inputBuffer[k])
                   = CurrentProgress)
  /\ [][(/\ InPlay /\ frameRequested /\ running
         /\ inputBuffer # <<>> /\ inputBuffer' = <<>>
         /\ ~gameplay'.paused
         /\ \A k \in 1..Len(inputBuffer) :
              ~inputBuffer[k].pressed \/ Stray(inputBuffer[k])
         /\ \E k \in 1..Len(inputBuffer) : Stray(inputBuffer[k])
         /\ NoNoteDue)
        => /\ scoreState' = scoreState
           /\ gameplay'.judgments = gameplay.judgments
           /\ gameplay'.activeNotes = gameplay.activeNotes
           /\ gameplay'.combo = gameplay.combo
           /\ gameplay'.maxCombo = gameplay.maxCombo
           /\ \A k \in 1..Len(events') :
                k > Len(events) => events'[k].type = "song-end"
           /\ \A k \in 1..Len(events) : events'[k] = events[k]]_vars

\* a press made while a note was still unjudged has been flushed by a frame
\* of the play and nothing was judged
C16_Witness ==
  /\ InPlay
  /\ heldKeys # {}
  /\ inputBuffer = <<>>
  /\ frameRan
  /\ gameplay.judgments = <<>>
  /\ events = <<>>
  /\ scoreState = createScoreState(Len(Chart.notes))

(***************************************************************************)
(* Properties of the parser (SpecParse).  The file is read here by line    *)
(* positions, on its own terms: a chart is open after a fence with a valid *)
(* difficulty, a measure runs between two separators.                      *)
(***************************************************************************)
Parsed == ret.done /\ call.op = "parseStpFile"

FileLines == call.content

\* the values the headers of the file give, or none
HeaderGiven(key) ==
  LET at == { i \in 1..Len(FileLines) :
                FileLines[i].kind = "header" /\ FileLines[i].key = key }
  IN /\ at # {}
     /\ \E i \in at : /\ \A j \in at : j <= i
                      /\ FileLines[i].value # ""

BpmGiven ==
  \E i \in 1..Len(FileLines) :
    /\ FileLines[i].kind = "header" /\ FileLines[i].key = "BPM"
    /\ ~FileLines[i].number.nan /\ FileLines[i].number.n > 0

MissingHeaders ==
  (IF HeaderGiven("TITLE") THEN {} ELSE {"TITLE"})
    \cup (IF BpmGiven THEN {} ELSE {"BPM"})
    \cup (IF HeaderGiven("MUSIC") THEN {} ELSE {"MUSIC"})

ValidFenceAt(i) ==
  /\ FileLines[i].kind = "fence"
  /\ FileLines[i].name \in {"easy", "EASY", "Easy", "hArD"}

MissingMessage ==
  [TITLE |-> "Missing required header: TITLE",
   BPM |-> "Missing required header: BPM",
   MUSIC |-> "Missing required header: MUSIC"]

ErrorsOf(result) == { result.errors[k] : k \in 1..Len(result.errors) }

\* the messages of the errors that only the loop over the chart lines makes
ChartMessages ==
  {"Invalid chart declaration", "Invalid character",
   "Invalid row length: expected 4 characters", "Unusual measure length",
   "No valid charts found in file"}

\* C17: parse returns song = null exactly when TITLE, BPM or MUSIC is
\* missing (no BPM parses to a number > 0) or no chart was produced; with a
\* header missing the errors name each missing header and no chart line is
\* parsed, with no chart the errors hold the line-0 error 'No valid charts
\* found'; in every other case a song is returned, errors or not.
C17_SongNull ==
  Parsed =>
    LET result == ret.value
        noCharts == ~\E i \in 1..Len(FileLines) : ValidFenceAt(i)
    IN /\ (result.song = Null) <=> (MissingHeaders # {} \/ noCharts)
       /\ \A key \in {"TITLE", "BPM", "MUSIC"} :
            (key \in MissingHeaders)
              <=> (ParserError(0, MissingMessage[key]) \in ErrorsOf(result))
       /\ MissingHeaders # {} =>
            \A e \in ErrorsOf(result) : e.message \notin ChartMessages
       /\ (MissingHeaders = {} /\ noCharts) =>
            ParserError(0, "No valid charts found in file")
              \in ErrorsOf(result)

\* a file with every header whose only fence has an unknown difficulty
C17_Witness ==
  /\ Parsed
  /\ ret.value.song = Null
  /\ MissingHeaders = {}
  /\ \E i \in 1..Len(FileLines) : FileLines[i].kind = "fence"
  /\ ParserError(0, "No valid charts found in file") \in ErrorsOf(ret.value)

\* line i is a separator of measures: a ',' or the fence that opens a chart
SeparatorAt(i) == FileLines[i] = Comma \/ ValidFenceAt(i)

\* line i is read while a chart is open
OpenAt(i) == \E j \in 1..(i - 1) : ValidFenceAt(j)

\* the fence that opened the chart line i is read in
ChartStart(i) ==
  CHOOSE j \in 1..(i - 1) :
    ValidFenceAt(j) /\ \A k \in (j + 1)..(i - 1) : ~ValidFenceAt(k)

\* the separators around line i; past the end of the file if none follows
MeasureStart(i) ==
  CHOOSE j \in 1..(i - 1) :
    SeparatorAt(j) /\ \A k \in (j + 1)..(i - 1) : ~SeparatorAt(k)

MeasureEnd(i) ==
  CHOOSE j \in (i + 1)..(Len(FileLines) + 1) :
    /\ j = Len(FileLines) + 1 \/ SeparatorAt(j)
    /\ \A k \in (i + 1)..(j - 1) : ~SeparatorAt(k)

\* line i is a row of 4 characters, all of them '.', L, D, U or R
AcceptedRowAt(i) ==
  /\ FileLines[i].kind = "text"
  /\ Len(FileLines[i].chars) = 4
  /\ \A k \in 1..4 : FileLines[i].chars[k] \in {".", "L", "D", "U", "R"}

ArrowsAt(i) ==
  { CHAR_TO_DIRECTION[FileLines[i].chars[k]] :
      k \in { q \in 1..4 : FileLines[i].chars[q] # "." } }

MeasureIndexAt(i) ==
  Cardinality({ j \in ChartStart(i)..i : FileLines[j] = Comma })

RowIndexAt(i) ==
  Cardinality({ j \in (MeasureStart(i) + 1)..(i - 1) : AcceptedRowAt(j) })

RowCountAt(i) ==
  Cardinality({ j \in (MeasureStart(i) + 1)..(MeasureEnd(i) - 1) :
                  AcceptedRowAt(j) })

\* time = offset + (measureIndex * 4 + rowIndex * 4 / rowCount) * 60000 / bpm
\* for the row at line i
TimeOfRowAt(time, i, song) ==
  time.num * (RowCountAt(i) * song.bpm)
    = time.den * (song.offset * RowCountAt(i) * song.bpm
                  + (MeasureIndexAt(i) * 4 * RowCountAt(i)
                     + RowIndexAt(i) * 4) * 60000)

NotesOf(chart) == { chart.notes[k] : k \in 1..Len(chart.notes) }

AllNotes(song) == UNION { NotesOf(song.charts[c]) : c \in 1..Len(song.charts) }

\* C18: every note parse produces comes from a row of an open chart and has
\* time = offset + (measureIndex * 4 + rowIndex * 4 / rowCount) * 60000 / bpm
\* for that row's index in its measure, the measure's count of accepted rows
\* and the ',' lines before it in its chart; every arrow of a row gets a note
\* at that time; at 120 BPM a 4-row measure with arrows on rows 0 and 2 gives
\* the times 0 and 1000.
C18_RowTimes ==
  (Parsed /\ ret.value.song # Null) =>
    LET song == ret.value.song
        rows == { i \in 1..Len(FileLines) : OpenAt(i) /\ AcceptedRowAt(i) }
    IN /\ \A note \in AllNotes(song) :
            \E i \in rows : /\ note.direction \in ArrowsAt(i)
                            /\ TimeOfRowAt(note.time, i, song)
       /\ \A i \in rows : \A direction \in ArrowsAt(i) :
            \E note \in AllNotes(song) :
              /\ note.direction = direction
              /\ TimeOfRowAt(note.time, i, song)
       /\ FileLines = UsualHeaders \o
            <<Fence("easy", 1), Text(<<"L", ".", ".", ".">>),
              Text(<<".", ".", ".", ".">>), Text(<<"L", ".", ".", ".">>),
              Text(<<".", ".", ".", ".">>)>>
          => [k \in 1..Len(song.charts[1].notes) |->
                song.charts[1].notes[k].time]
               = <<[num |-> 0, den |-> 1], [num |-> 1000, den |-> 1]>>

\* the file with line i left empty
WithoutLine(i) == [FileLines EXCEPT ![i] = Blank]

\* C19: a line of an open chart that is not a header, comment, fence or ','
\* and whose trimmed length is not 4 is reported with an error containing
\* '4 characters', and contributes no notes.
C19_RowLengthReported ==
  Parsed =>
    \A i \in 1..Len(FileLines) :
      (/\ MissingHeaders = {}
       /\ OpenAt(i)
       /\ FileLines[i].kind = "text"
       /\ Len(FileLines[i].chars) # 4)
      => /\ ParserError(i, "Invalid row length: expected 4 characters")
              \in ErrorsOf(ret.value)
         /\ ret.value.song = parseStpFile(WithoutLine(i), call.songId).song

\* C20: a 4-character row of an open chart with a character outside
\* '.', L, D, U, R is reported with an error containing 'Invalid character'
\* and is discarded: the song is the one parsed from the file without that
\* line (no notes, no part in row counts or indices, the lines after it read
\* as before), and no other error is added or lost.
C20_InvalidCharacterDiscarded ==
  Parsed =>
    \A i \in 1..Len(FileLines) :
      (/\ MissingHeaders = {}
       /\ OpenAt(i)
       /\ FileLines[i].kind = "text"
       /\ Len(FileLines[i].chars) = 4
       /\ ~AcceptedRowAt(i))
      => LET without == parseStpFile(WithoutLine(i), call.songId)
         IN /\ ParserError(i, "Invalid character") \in ErrorsOf(ret.value)
            /\ ret.value.song = without.song
            /\ ErrorsOf(ret.value)
                 = ErrorsOf(without) \cup {ParserError(i, "Invalid character")}

\* a row with a foreign character between two accepted rows of one measure
C20_Witness ==
  /\ Parsed
  /\ ret.value.song # Null
  /\ \E i \in 2..(Len(FileLines) - 1) :
       /\ FileLines[i] = Text(<<"L", "X", "U", "R">>)
       /\ AcceptedRowAt(i - 1) /\ OpenAt(i - 1)
       /\ AcceptedRowAt(i + 1) /\ ArrowsAt(i + 1) # {}
  /\ \E e \in ErrorsOf(ret.value) : e.message = "Invalid character"

\* the rows of the file that are read into a chart
ChartRows == { i \in 1..Len(FileLines) : OpenAt(i) /\ AcceptedRowAt(i) }

\* C21: in every chart of every song parse returns the notes list is in
\* non-decreasing order of time, and two notes of a chart have equal times
\* only as two arrows of one row.
C21_NotesSorted ==
  (Parsed /\ ret.value.song # Null) =>
    LET song == ret.value.song
    IN \A c \in 1..Len(song.charts) :
         LET notes == song.charts[c].notes
         IN \A k \in 1..Len(notes) : \A l \in (k + 1)..Len(notes) :
              /\ TimeLeq(notes[k].time, notes[l].time)
              /\ notes[k].time = notes[l].time =>
                   \E i \in ChartRows :
                     /\ notes[k].direction \in ArrowsAt(i)
                     /\ notes[l].direction \in ArrowsAt(i)
                     /\ notes[k].direction # notes[l].direction
                     /\ TimeOfRowAt(notes[k].time, i, song)

\* the column of a direction: left, down, up, right
ColumnOf(direction) == CHOOSE k \in 1..4 : DIRECTIONS[k] = direction

\* C22: in every chart parse returns, note ids are pairwise distinct, start
\* at 0 in each chart whatever the charts before it, and increase with the
\* position in the chart's notes list, which is in row order and, within a
\* row, in the order left, down, up, right.
C22_NoteIds ==
  (Parsed /\ ret.value.song # Null) =>
    \A c \in 1..Len(ret.value.song.charts) :
      LET notes == ret.value.song.charts[c].notes
      IN /\ Len(notes) > 0 => notes[1].id = 0
         /\ \A k \in 1..Len(notes) : \A l \in (k + 1)..Len(notes) :
              /\ notes[k].id < notes[l].id
              /\ notes[k].time = notes[l].time =>
                   ColumnOf(notes[k].direction) < ColumnOf(notes[l].direction)

\* line i is a fence whose difficulty is none of the five names
InvalidFenceAt(i) == FileLines[i].kind = "fence" /\ ~ValidFenceAt(i)

\* the difficulty and level that the valid fence at line i declares
DeclaredAt(i) ==
  [difficulty |-> IF FileLines[i].name \in {"easy", "EASY", "Easy"}
                  THEN "Easy" ELSE "Hard",
   level |-> IF FileLines[i].level > 20 THEN 20
             ELSE IF FileLines[i].level < 1 THEN 1 ELSE FileLines[i].level]

\* the difficulty and level of each chart of the song
DeclarationsOf(song) ==
  { [difficulty |-> song.charts[c].difficulty, level |-> song.charts[c].level] :
      c \in 1..Len(song.charts) }

\* C23: a fence whose difficulty name is not Beginner, Easy, Medium, Hard
\* or Challenge in any case is reported as 'Invalid chart declaration' at
\* its line and opens no chart: the charts of the result have the
\* difficulties and levels of the valid fences only (none when there is no
\* valid fence), and the lines after it are parsed: every valid fence, also
\* a later one, has its chart, and only invalid fences are reported.
C23_InvalidDeclaration ==
  (Parsed /\ MissingHeaders = {}) =>
    LET result == ret.value
        valid == { i \in 1..Len(FileLines) : ValidFenceAt(i) }
    IN /\ \A i \in 1..Len(FileLines) :
            InvalidFenceAt(i)
              <=> ParserError(i, "Invalid chart declaration")
                    \in ErrorsOf(result)
       /\ valid = {} => result.song = Null
       /\ result.song # Null =>
            DeclarationsOf(result.song) = { DeclaredAt(i) : i \in valid }

\* a chart of one difficulty, a fence with an unknown difficulty, then a
\* chart of another difficulty with a level above 20
C23_Witness ==
  /\ Parsed
  /\ ret.value.song # Null
  /\ \E i, j, k \in 1..Len(FileLines) :
       /\ i < j /\ j < k
       /\ FileLines[i] = Fence("easy", 1)
       /\ InvalidFenceAt(j)
       /\ FileLines[k] = Fence("hArD", 25)
       /\ ParserError(j, "Invalid chart declaration") \in ErrorsOf(ret.value)
  /\ [difficulty |-> "Hard", level |-> 20] \in DeclarationsOf(ret.value.song)

\* the file with a ',' line put before line i (after the last line when i
\* is past the end)
WithCommaBefore(i) ==
  SubSeq(FileLines, 1, i - 1) \o <<Comma>>
    \o SubSeq(FileLines, i, Len(FileLines))

\* C24: rows still pending at the next valid fence or at the end of input
\* are emitted into their chart with the times a closing ',' would give
\* them: the parsed song does not change when a ',' line is appended to the
\* file, nor when one is put before a valid fence that ends an open chart;
\* each arrow of such a row has a note in a chart of the declaration it was
\* read under.
C24_PendingRowsFlushed ==
  Parsed =>
    /\ parseStpFile(WithCommaBefore(Len(FileLines) + 1), call.songId).song
         = ret.value.song
    /\ \A i \in 1..Len(FileLines) :
         (ValidFenceAt(i) /\ OpenAt(i)) =>
           parseStpFile(WithCommaBefore(i), call.songId).song = ret.value.song
    /\ ret.value.song # Null =>
         \A i \in ChartRows :
           (MeasureEnd(i) = Len(FileLines) + 1 \/ ValidFenceAt(MeasureEnd(i)))
           => \A direction \in ArrowsAt(i) :
                \E c \in 1..Len(ret.value.song.charts) :
                  LET chart == ret.value.song.charts[c]
                  IN /\ chart.difficulty = DeclaredAt(ChartStart(i)).difficulty
                     /\ chart.level = DeclaredAt(ChartStart(i)).level
                     /\ \E note \in NotesOf(chart) :
                          note.direction = direction

\* a chart that a fence ends with an arrow pending, followed by a chart
\* that the end of the file ends with an arrow pending
C24_Witness ==
  /\ Parsed
  /\ ret.value.song # Null
  /\ Len(ret.value.song.charts) = 2
  /\ \A c \in 1..2 : Len(ret.value.song.charts[c].notes) > 0
  /\ \E i \in 3..(Len(FileLines) - 1) :
       /\ ValidFenceAt(i) /\ OpenAt(i)
       /\ AcceptedRowAt(i - 1) /\ ArrowsAt(i - 1) # {}
  /\ AcceptedRowAt(Len(FileLines))
  /\ ArrowsAt(Len(FileLines)) # {}

\* C25: for every beat, bpm > 0 and offset where the arithmetic is exact,
\* msToBeat(beatToMs(beat, bpm, offset), bpm, offset) = beat and
\* beatToMs(msToBeat(ms, bpm, offset), bpm, offset) = ms, and the parser's
\* beatToTime and timeToBeat return what beatToMs and msToBeat return.
C25_TimeConversions ==
  ret.done =>
    /\ call.op \in {"beatToMs", "beatToTime"} =>
         /\ msToBeat(ret.value, call.bpm, call.offset) = call.beat
         /\ timeToBeat(ret.value, call.bpm, call.offset) = call.beat
         /\ ret.value = beatToMs(call.beat, call.bpm, call.offset)
         /\ ret.value = beatToTime(call.beat, call.bpm, call.offset)
    /\ call.op \in {"msToBeat", "timeToBeat"} =>
         /\ beatToMs(ret.value, call.bpm, call.offset) = call.ms
         /\ beatToTime(ret.value, call.bpm, call.offset) = call.ms
         /\ ret.value = msToBeat(call.ms, call.bpm, call.offset)
         /\ ret.value = timeToBeat(call.ms, call.bpm, call.offset)

\* beat 1.5 at 128 BPM with offset 100 is 803.125 ms
C25_Witness ==
  /\ ret.done
  /\ call.op = "beatToMs"
  /\ call.beat = [num |-> 3, den |-> 2]
  /\ call.bpm = Whole(128)
  /\ call.offset = Whole(100)
  /\ ret.value = [num |-> 6425, den |-> 8]

(***************************************************************************)
(* Properties of the game loop (Spec)                                      *)
(***************************************************************************)
\* C26: starting and playing a session never changes the parsed chart: in
\* every reachable state every note of chart.notes has judged = false and
\* no judgment, so the step that starts the same chart again leaves every
\* active note unjudged, no judgments and a fresh ScoreState.
C26_ChartUntouched ==
  /\ [](gameplay # Null =>
          /\ gameplay.chart = Chart
          /\ \A k \in 1..Len(gameplay.chart.notes) :
               /\ ~gameplay.chart.notes[k].judged
               /\ gameplay.chart.notes[k].judgment = Null)
  /\ [][(gameplay # Null /\ gameplay' # Null
           /\ gameplay.ended /\ ~gameplay'.ended) =>
          /\ Len(gameplay'.activeNotes) = Len(Chart.notes)
          /\ \A i \in 1..Len(gameplay'.activeNotes) :
               /\ ~gameplay'.activeNotes[i].judged
               /\ gameplay'.activeNotes[i].judgment = Null
               /\ gameplay'.activeNotes[i].id = Chart.notes[i].id
               /\ gameplay'.activeNotes[i].time = Chart.notes[i].time
          /\ gameplay'.judgments = <<>>
          /\ scoreState' = createScoreState(Len(Chart.notes))]_vars

\* the chart was played to its end, with a hit among the judgments, and has
\* been started again
C26_Witness ==
  /\ gameplay # Null
  /\ ~gameplay.ended
  /\ countdown.active
  /\ gameplay.judgments = <<>>
  /\ \E e \in 1..Len(events) : events[e].type = "song-end"
  /\ \E e \in 1..Len(events) :
       events[e].type = "judgment" /\ events[e].data.grade # "miss"
  /\ \A i \in 1..Len(gameplay.activeNotes) : ~gameplay.activeNotes[i].judged

\* a step that is a frame of the loop in play
ActiveFrameStep ==
  /\ InPlay /\ running /\ frameRequested
  /\ gameplay' # Null /\ ~gameplay'.paused
  /\ clock' = clock /\ keyCount' = keyCount
  /\ inputBuffer' = <<>>

\* the judgments that the step appends to the list
NewJudgments ==
  SubSeq(gameplay'.judgments, Len(gameplay.judgments) + 1,
         Len(gameplay'.judgments))

\* the judgments from index k on folded into the state, in list order
RECURSIVE FoldJudgments(_, _, _)
FoldJudgments(state, judgments, k) ==
  IF k > Len(judgments) THEN state
  ELSE FoldJudgments(applyJudgment(state, judgments[k].grade), judgments,
                     k + 1)

\* the game time of a buffered input
InputGameTime(input) == input.timestamp - gameStartTime + audioStartOffset

\* the judgments made from key presses are those of presses of the buffer,
\* taken in the order of the buffer
InArrivalOrder(hits) ==
  \E at \in [1..Len(hits) -> 1..Len(inputBuffer)] :
    /\ \A k \in 1..Len(hits) :
         /\ inputBuffer[at[k]].pressed
         /\ hits[k].time = InputGameTime(inputBuffer[at[k]])
    /\ \A k \in 1..Len(hits) : \A l \in (k + 1)..Len(hits) : at[k] < at[l]

\* the note with this id, before the step
NoteWithId(id) ==
  gameplay.activeNotes[CHOOSE i \in 1..Len(gameplay.activeNotes) :
                         gameplay.activeNotes[i].id = id]

\* the statement of C27 as the claim gives it: within each time step the
\* driver first promotes the now-missed notes to miss judgments, then
\* drains the buffered inputs in arrival order with findMatchingNote for
\* each, then folds the judgments into the ScoreState.
C27_MissesThenInputs ==
  [][ActiveFrameStep =>
       LET T == getCurrentGameTime
           new == NewJudgments
       IN /\ \E h \in 0..Len(new) :
               /\ \A k \in 1..h : new[k].grade = "miss" /\ new[k].time = T
               /\ \A k \in (h + 1)..Len(new) : new[k].grade # "miss"
               /\ InArrivalOrder(SubSeq(new, h + 1, Len(new)))
          /\ \A i \in 1..Len(gameplay.activeNotes) :
               (/\ ~gameplay.activeNotes[i].judged
                /\ T - gameplay.activeNotes[i].time > 180)
               => \E k \in 1..Len(new) :
                    /\ new[k].noteId = gameplay.activeNotes[i].id
                    /\ new[k].grade = "miss"
          /\ scoreState' = FoldJudgments(scoreState, new, 1)]_vars

\* C27: within each frame in play the driver first drains the buffered
\* inputs in arrival order, judging for each press the note findMatchingNote
\* gives at the press's own game time, then promotes the notes that are
\* still unjudged and missed at the frame's time to miss judgments; each
\* judgment is folded into the ScoreState in that order.
C27_InputsThenMisses ==
  [][ActiveFrameStep =>
       LET T == getCurrentGameTime
           new == NewJudgments
           hitIds == { new[k].noteId :
                         k \in { q \in 1..Len(new) : new[q].grade # "miss" } }
       IN /\ \E h \in 0..Len(new) :
               /\ \A k \in 1..h : new[k].grade # "miss"
               /\ \A k \in (h + 1)..Len(new) :
                    new[k].grade = "miss" /\ new[k].time = T
               /\ InArrivalOrder(SubSeq(new, 1, h))
          /\ \A k \in 1..Len(new) :
               new[k].grade # "miss" =>
                 LET note == NoteWithId(new[k].noteId)
                 IN /\ ~note.judged
                    /\ new[k].timingDiff = new[k].time - note.time
                    /\ new[k].timingDiff >= -180 /\ new[k].timingDiff <= 180
          /\ \A k \in 1..Len(inputBuffer) :
               (/\ inputBuffer[k].pressed
                /\ \A l \in 1..(k - 1) : ~inputBuffer[l].pressed
                /\ ~Stray(inputBuffer[k]))
               => /\ Len(new) > 0
                  /\ new[1].grade # "miss"
                  /\ new[1].noteId =
                       findMatchingNote(gameplay.activeNotes,
                                        inputBuffer[k].direction,
                                        InputGameTime(inputBuffer[k])).id
          /\ \A i \in 1..Len(gameplay.activeNotes) :
               (/\ ~gameplay.activeNotes[i].judged
                /\ T - gameplay.activeNotes[i].time > 180
                /\ gameplay.activeNotes[i].id \notin hitIds)
               => \E k \in 1..Len(new) :
                    /\ new[k].noteId = gameplay.activeNotes[i].id
                    /\ new[k].grade = "miss"
          /\ scoreState' = FoldJudgments(scoreState, new, 1)]_vars

\* a press made 180 ms after the jump was judged a boo, and the frame 225 ms
\* after the jump then promoted the other arrow of the jump to a miss
C27_Witness ==
  /\ gameplay # Null
  /\ Len(gameplay.judgments) = 2
  /\ gameplay.judgments[1].grade = "boo"
  /\ gameplay.judgments[1].time = 180
  /\ gameplay.judgments[2].grade = "miss"
  /\ gameplay.judgments[2].time = 225
  /\ scoreState.judgmentCounts.boo = 1
  /\ scoreState.judgmentCounts.miss = 1

\* the indices of the new judgments that are misses
NewMisses == { k \in 1..Len(NewJudgments) : NewJudgments[k].grade = "miss" }

\* C28: after every frame in play run at game time T no unjudged note has
\* T - note.time > 180: each note not hit gets exactly one miss judgment,
\* with timingDiff = T - note.time, in the first frame at which
\* T - note.time > 180; the judgment goes through applyJudgment like a
\* player's (one more miss counted, combo 0, health changed by the miss
\* delta), and no note becomes a miss while T - note.time <= 180.
C28_MissPromotion ==
  /\ [][ActiveFrameStep =>
          LET T == getCurrentGameTime
              new == NewJudgments
          IN /\ \A i \in 1..Len(gameplay'.activeNotes) :
                  ~gameplay'.activeNotes[i].judged =>
                    T - gameplay'.activeNotes[i].time <= 180
             /\ \A k \in NewMisses :
                  LET note == NoteWithId(new[k].noteId)
                  IN /\ ~note.judged
                     /\ new[k].timingDiff = T - note.time
                     /\ new[k].timingDiff > 180
                     /\ new[k].time = T
                     /\ \A l \in NewMisses :
                          new[l].noteId = new[k].noteId => l = k
             /\ scoreState'.judgmentCounts.miss
                  = scoreState.judgmentCounts.miss + Cardinality(NewMisses)
             /\ scoreState'.totalJudged = scoreState.totalJudged + Len(new)
             /\ NewMisses # {} =>
                  /\ scoreState'.combo = 0
                  /\ scoreState' =
                       applyJudgment(
                         FoldJudgments(scoreState,
                                       SubSeq(new, 1, Len(new) - 1), 1),
                         "miss")]_vars
  /\ [](gameplay # Null =>
          \A k \in 1..Len(gameplay.judgments) :
            gameplay.judgments[k].grade = "miss" =>
              /\ gameplay.judgments[k].timingDiff > 180
              /\ \A l \in 1..Len(gameplay.judgments) :
                   gameplay.judgments[l].noteId = gameplay.judgments[k].noteId
                     => l = k)

\* the frame 225 ms after the jump has promoted both its arrows, and the
\* left arrow due 90 ms after the jump, 135 ms old, is still unjudged
C28_Witness ==
  /\ gameplay # Null
  /\ InPlay
  /\ getCurrentGameTime = 225
  /\ Len(gameplay.judgments) = 2
  /\ \A k \in 1..2 :
       /\ gameplay.judgments[k].grade = "miss"
       /\ gameplay.judgments[k].timingDiff = 225
  /\ ~gameplay.activeNotes[3].judged
  /\ scoreState.judgmentCounts.miss = 2

\* the judgments that processing this buffered input now would append
JudgmentsFrom(input) ==
  LET p == processInput(CurrentProgress, input)
  IN SubSeq(p.judgments, Len(gameplay.judgments) + 1, Len(p.judgments))

\* C29: every judgment the game loop makes from a key press has a grade
\* among marvelous, perfect, great, good, boo and |timingDiff| <= 180: a
\* press never reaches the default-to-miss branch of judgeNote through
\* processInputs, and a miss judgment comes only from the promotion of a
\* note more than 180 ms old at the time of a frame.
C29_PressNeverMisses ==
  /\ [](InPlay =>
          \A k \in 1..Len(inputBuffer) :
            LET made == JudgmentsFrom(inputBuffer[k])
            IN \A j \in 1..Len(made) :
                 /\ made[j].grade \in
                      {"marvelous", "perfect", "great", "good", "boo"}
                 /\ made[j].timingDiff >= -180
                 /\ made[j].timingDiff <= 180
                 /\ calculateJudgment(made[j].timingDiff) = made[j].grade)
  /\ [][ActiveFrameStep =>
          \A k \in 1..Len(NewJudgments) :
            LET made == NewJudgments[k]
            IN IF made.grade = "miss"
               THEN /\ made.time = getCurrentGameTime
                    /\ made.timingDiff > 180
                    /\ \A l \in 1..Len(inputBuffer) :
                         inputBuffer[l].pressed =>
                           InputGameTime(inputBuffer[l])
                               - NoteWithId(made.noteId).time > 180
                             \/ inputBuffer[l].direction
                                  # NoteWithId(made.noteId).direction
                             \/ \E h \in 1..(k - 1) :
                                  NewJudgments[h].time
                                    = InputGameTime(inputBuffer[l])
               ELSE /\ made.timingDiff >= -180
                    /\ made.timingDiff <= 180
                    /\ \E l \in 1..Len(inputBuffer) :
                         /\ inputBuffer[l].pressed
                         /\ inputBuffer[l].direction
                              = NoteWithId(made.noteId).direction
                         /\ InputGameTime(inputBuffer[l]) = made.time]_vars

\* two presses of the left key at the time of the jump: the first hit the
\* left arrow of the jump, the second the left arrow due 90 ms later, 90 ms
\* early, on the edge of the great window
C29_Witness ==
  /\ gameplay # Null
  /\ Len(gameplay.judgments) = 2
  /\ gameplay.judgments[1].grade = "marvelous"
  /\ gameplay.judgments[2].noteId = 2
  /\ gameplay.judgments[2].grade = "great"
  /\ gameplay.judgments[2].timingDiff = -90
  /\ gameplay.activeNotes[3].judged

(***************************************************************************)
(* Properties of the charts list (SpecParse)                               *)
(***************************************************************************)
\* the lines with a valid chart declaration
ValidFences == { i \in 1..Len(FileLines) : ValidFenceAt(i) }

\* the line of the c-th valid chart declaration
NthValidFence(c) ==
  CHOOSE i \in ValidFences :
    Cardinality({ j \in ValidFences : j <= i }) = c

\* C30: for any input with valid required headers the charts list of the
\* returned song holds exactly one chart per valid chart declaration line,
\* in declaration order, whatever invalid declarations or other line-local
\* errors lie between them.
C30_OneChartPerDeclaration ==
  (Parsed /\ MissingHeaders = {} /\ ret.value.song # Null) =>
    LET charts == ret.value.song.charts
    IN /\ Len(charts) = Cardinality(ValidFences)
       /\ \A c \in 1..Len(charts) :
            c <= Cardinality(ValidFences) =>
              /\ charts[c].difficulty = DeclaredAt(NthValidFence(c)).difficulty
              /\ charts[c].level = DeclaredAt(NthValidFence(c)).level

\* C31: each accepted note row contributes its notes exactly once: no
\* chart parse returns holds two notes with the same time and the same
\* direction.
C31_NoDuplicateNotes ==
  (Parsed /\ ret.value.song # Null) =>
    \A c \in 1..Len(ret.value.song.charts) :
      LET notes == ret.value.song.charts[c].notes
      IN \A k \in 1..Len(notes) : \A l \in (k + 1)..Len(notes) :
           ~(/\ notes[k].time = notes[l].time
             /\ notes[k].direction = notes[l].direction)

\* C32: in every state of a play session the number of judged notes, the
\* length of the judgments list, the sum of the six judgment counts and
\* scoreState.totalJudged are one number, at most totalNotes; the maximum
\* possible score is 400 times that number and bounds the raw score.
JudgedNotes == {k \in 1..Len(gameplay.activeNotes) : gameplay.activeNotes[k].judged}

C32_JudgedCountsAgree ==
  (gameplay # Null /\ scoreState # Null) =>
    LET counts == scoreState.judgmentCounts
    IN /\ scoreState.totalJudged = Cardinality(JudgedNotes)
       /\ scoreState.totalJudged = Len(gameplay.judgments)
       /\ scoreState.totalJudged =
            counts.marvelous + counts.perfect + counts.great +
            counts.good + counts.boo + counts.miss
       /\ scoreState.totalJudged <= scoreState.totalNotes
       /\ scoreState.totalNotes = Len(gameplay.chart.notes)
       /\ scoreState.maxPossibleScore = 400 * scoreState.totalJudged
       /\ scoreState.rawScore <= scoreState.maxPossibleScore

C32_Witness ==
  /\ gameplay # Null
  /\ scoreState # Null
  /\ scoreState.totalJudged = 3
  /\ scoreState.judgmentCounts.miss = 1
  /\ scoreState.judgmentCounts.marvelous = 1
  /\ scoreState.rawScore > 100

\* a key callback runs in the step; call' holds the callback and its event
KeyStep == keyCount' = keyCount + 1

\* a frame in play runs in the step: processInputs calls flush()
FlushStep ==
  /\ InPlay /\ running /\ frameRequested
  /\ gameplay' # Null /\ ~gameplay'.paused
  /\ clock' = clock /\ keyCount' = keyCount

\* pause() runs in the step, and with it InputManager.clear()
ClearStep == gameplay # Null /\ gameplay' # Null /\ ~gameplay.paused /\ gameplay'.paused

\* the event a callback buffers for the key event e
Captured(e, pressed) ==
  [direction |-> KEY_TO_DIRECTION[e.code], timestamp |-> clock,
   pressed |-> pressed]

\* C33: while input is enabled and clear() is not called, a non-repeat
\* keydown and a keyup of an arrow key are appended to the end of the buffer
\* with the time of the callback, a repeated keydown and a key that is no
\* arrow leave the buffer as it is, no other step than a flush touches the
\* buffer, and the flush of a frame in play takes the whole buffer, leaves
\* it empty and judges notes from its pressed events only, in buffer order:
\* so every captured event is handed out by exactly one flush and the
\* flushes, one after the other, give the events in capture order.
C33_BufferedOnceInOrder ==
  [][/\ (KeyStep /\ call'.op = "handleKeyDown") =>
          IF ~call'.e.repeat /\ call'.e.code \in DOMAIN KEY_TO_DIRECTION
          THEN inputBuffer' = Append(inputBuffer, Captured(call'.e, TRUE))
          ELSE inputBuffer' = inputBuffer
     /\ (KeyStep /\ call'.op = "handleKeyUp") =>
          IF call'.e.code \in DOMAIN KEY_TO_DIRECTION
          THEN inputBuffer' = Append(inputBuffer, Captured(call'.e, FALSE))
          ELSE inputBuffer' = inputBuffer
     /\ FlushStep =>
          /\ inputBuffer' = <<>>
          /\ \E h \in 0..Len(NewJudgments) :
               /\ \A k \in 1..h : NewJudgments[k].grade # "miss"
               /\ \A k \in (h + 1)..Len(NewJudgments) :
                    NewJudgments[k].grade = "miss"
               /\ InArrivalOrder(SubSeq(NewJudgments, 1, h))
     /\ (~KeyStep /\ ~FlushStep /\ ~ClearStep) => inputBuffer' = inputBuffer
    ]_vars

\* a press was flushed and judged as a hit, and a repeated keydown of the
\* key that is still held was delivered and left the buffer empty
C33_Witness ==
  /\ call.op = "handleKeyDown"
  /\ call.e.repeat
  /\ call.e.code = "ArrowLeft"
  /\ keyCount = 2
  /\ heldKeys = {"left"}
  /\ inputBuffer = <<>>
  /\ Len(gameplay.judgments) = 1
  /\ gameplay.judgments[1].grade # "miss"

\* the step takes effect as pause() does: the game becomes paused or a
\* pause event is emitted
PauseTakesEffect ==
  \/ gameplay # Null /\ gameplay' # Null /\ ~gameplay.paused /\ gameplay'.paused
  \/ /\ Len(events') > Len(events)
     /\ \E k \in (Len(events) + 1)..Len(events') : events'[k].type = "pause"

\* C34: no step taken while a countdown is active or the game is paused (a
\* frame, a key callback, the clock, resume) changes the ScoreState, the
\* judgments list or a note of the play, and pause() takes effect only in
\* play: not during a countdown, not when paused, not after the song's end.
C34_NoJudgmentOutsidePlay ==
  [][/\ (gameplay # Null /\ (countdown.active \/ gameplay.paused)) =>
          /\ gameplay' # Null
          /\ scoreState' = scoreState
          /\ gameplay'.judgments = gameplay.judgments
          /\ gameplay'.activeNotes = gameplay.activeNotes
          /\ gameplay'.score = gameplay.score
          /\ gameplay'.combo = gameplay.combo
     /\ PauseTakesEffect =>
          /\ ~countdown.active
          /\ ~gameplay.paused
          /\ ~gameplay.ended
    ]_vars

\* a frame ran in the countdown that follows a resume, with a judged note,
\* an unjudged note and a key press waiting in the buffer
C34_Witness ==
  /\ gameplay # Null
  /\ countdown.active
  /\ countdown.startTime > 0
  /\ frameRan
  /\ Len(gameplay.judgments) >= 1
  /\ Len(gameplay.judgments) < Len(gameplay.activeNotes)
  /\ Len(inputBuffer) >= 1
  /\ inputBuffer[1].pressed

\* the number of plays that have ended
SongEnds == Cardinality({k \in 1..Len(events) : events[k].type = "song-end"})

\* the first play is under way: its frames are handed the game time
Playing == InPlay /\ running /\ ~gameplay.ended /\ SongEnds = 0

\* the game times of the frames
GameTimes == {ClockSteps.coarse * c + ClockSteps.fine * f - PREP_TIME : c \in 0..(MaxClock \div ClockSteps.coarse), f \in 0..MaxFine}

\* C35: over one play session the game time handed to processInputs and
\* checkMisses in successive frames in play never decreases, also across
\* pause(), resume() and the countdown of the resume.
C35_GameTimeNeverDecreases ==
  \A t \in GameTimes :
    [](Playing /\ getCurrentGameTime = t
         => [](Playing => getCurrentGameTime >= t))

\* the events that the step emits
NewEvents == SubSeq(events', Len(events) + 1, Len(events'))

\* C36: a step emits the song-end event only as its last event, once, from
\* a play that had not ended, with the results of the ScoreState the step
\* leaves; once a play has ended, until it is started again, its state, the
\* ScoreState and the emitted events stay as they are whatever is called,
\* the frame loop is stopped and the song-end event is the last one emitted.
C36_SongEndIsFinal ==
  /\ []((gameplay # Null /\ gameplay.ended) =>
          /\ ~running /\ ~frameRequested /\ ~gameplay.paused
          /\ events # <<>>
          /\ events[Len(events)].type = "song-end"
          /\ events[Len(events)].data = generateResults(scoreState))
  /\ [][/\ (\E k \in 1..Len(NewEvents) : NewEvents[k].type = "song-end") =>
             /\ ~gameplay.ended /\ gameplay'.ended
             /\ \A k \in 1..Len(NewEvents) :
                  NewEvents[k].type = "song-end" <=> k = Len(NewEvents)
             /\ NewEvents[Len(NewEvents)].data = generateResults(scoreState')
             /\ NewEvents[Len(NewEvents)].data # Null
        /\ (gameplay # Null /\ gameplay.ended /\ gameplay'.ended) =>
             /\ gameplay' = gameplay
             /\ scoreState' = scoreState
             /\ events' = events
             /\ countdown' = countdown
       ]_vars

\* the play has ended with its three notes judged and the clock has moved
\* on since the frame that ended it
C36_Witness ==
  /\ gameplay # Null
  /\ gameplay.ended
  /\ ~frameRan
  /\ SongEnds = 1
  /\ events[Len(events)].data.maxCombo >= 1

\* C37: a play that is started and never stopped, that is resumed whenever
\* it is paused and whose frames keep running on an advancing clock, also
\* in play, comes to its end with every note judged, whatever keys are
\* pressed.
C37_EveryPlayEnds ==
  <>(/\ gameplay # Null
     /\ gameplay.ended
     /\ scoreState.totalJudged = scoreState.totalNotes
     /\ \A k \in 1..Len(gameplay.activeNotes) : gameplay.activeNotes[k].judged)

\* every note of the play is judged, and a full combo in the results means
\* that every note was judged great or better
CompletePlay ==
  /\ scoreState.totalJudged = scoreState.totalNotes
  /\ \A k \in 1..Len(gameplay.activeNotes) : gameplay.activeNotes[k].judged
  /\ generateResults(scoreState).isFullCombo =>
       \A k \in 1..Len(gameplay.activeNotes) :
         gameplay.activeNotes[k].judgment.grade \in {"marvelous", "perfect", "great"}

\* the statement of C38 as the claim gives it: whenever the song-end event
\* has been emitted every note of the chart has been judged, and a full
\* combo in the results means that every note was judged great or better.
C38_SongEndAllJudged ==
  (gameplay # Null /\ gameplay.ended) => CompletePlay

\* C38: when the song-end event is emitted either every note of the chart
\* has been judged, and then the results describe a complete play, or
\* there is audio of a positive duration and the game time of the frame is
\* more than 1000 ms past that duration; without audio it is always the
\* first.
C38_SongEndAllJudgedOrAudioOver ==
  /\ []((gameplay # Null /\ gameplay.ended /\ ~hasAudio) => CompletePlay)
  /\ [][(gameplay # Null /\ gameplay' # Null /\ ~gameplay.ended /\ gameplay'.ended) =>
          /\ events'[Len(events')].type = "song-end"
          /\ \/ CompletePlay'
             \/ /\ hasAudio
                /\ audioManager.duration > 0
                /\ getCurrentGameTime > audioManager.duration + 1000
       ]_vars

\* a play with audio has ended with both notes of the long chart hit
C38_Witness ==
  /\ gameplay # Null
  /\ gameplay.ended
  /\ hasAudio
  /\ scoreState.totalNotes = 2
  /\ scoreState.totalJudged = 2
  /\ events[Len(events)].type = "song-end"
  /\ events[Len(events)].data.isFullCombo

\* the positions of the notes a press of the direction can match: the
\* direction, unjudged, no started hold, at most 180 ms from the press
Matchable(notes, direction, currentTime) ==
  { i \in 1..Len(notes) :
      /\ notes[i].direction = direction
      /\ ~notes[i].judged
      /\ ~(notes[i].type = "hold" /\ notes[i].started)
      /\ Abs(currentTime - notes[i].time) <= 180 }

\* two matchable notes lie at the same distance on either side of the press
\* and no matchable note is nearer
TiedAt(notes, direction, currentTime, i, j) ==
  /\ i \in Matchable(notes, direction, currentTime)
  /\ j \in Matchable(notes, direction, currentTime)
  /\ i < j
  /\ currentTime - notes[i].time = notes[j].time - currentTime
  /\ currentTime - notes[i].time > 0
  /\ \A k \in Matchable(notes, direction, currentTime) :
       Abs(currentTime - notes[k].time) >= currentTime - notes[i].time

PlayStep == audioManager'.plays = audioManager.plays + 1

\* C40: with the deferred start of the audio interleaved with pause(),
\* resume(), stop() and frames, play() is called only by a timer callback,
\* only while the game is running, not paused, not ended and not in an
\* active countdown, and each finished countdown sets up one callback, which
\* calls play() at most once.
C40_AudioStartsOnlyInPlay ==
  [][/\ PlayStep =>
          /\ gameplay # Null
          /\ running
          /\ ~gameplay.paused
          /\ ~gameplay.ended
          /\ ~countdown.active
          /\ timers' \subseteq timers
          /\ Cardinality(timers') = Cardinality(timers) - 1
     /\ audioManager'.plays # audioManager.plays => PlayStep
     /\ ~(timers' \subseteq timers) =>
          /\ countdown.active /\ ~countdown'.active
          /\ Cardinality(timers') = Cardinality(timers) + 1
          /\ ~PlayStep
    ]_vars

====
